---- MODULE Spec2Model ----
(***************************************************************************)
(* Multi-agent assistant: the query cache and the request deduplicator of  *)
(* src/src/cache.py, the retrying parser of src/src/config.py and the      *)
(* LangGraph workflow of src/src/graph.py and src/src/agents.py.           *)
(*                                                                         *)
(* Strings are sequences of one-character strings.  Durations and clock    *)
(* readings are integers (one unit = one tick of the clock).               *)
(***************************************************************************)
EXTENDS Integers, Sequences, FiniteSets, TLC

VARIABLES
    \* QueryCache (src/src/cache.py)
    cache,          \* self.cache: the dict, as the sequence of its items in insertion order
    stats,          \* self.stats
    max_size,       \* self.max_size
    ttl,            \* self.ttl
    now,            \* the wall clock read by datetime.now()
    last,           \* history: the last operation, its argument and what it returned
    lastPut,        \* history: per stored key, the arguments and clock readings of its latest put
    run,            \* history: number of puts of pairwise new keys since the cache was empty, -1 when broken
    \* RequestDeduplicator (src/src/cache.py)
    processed_queries,  \* self.processed_queries: the dict, as the sequence of its items in insertion order
    threshold,      \* self.threshold, a fraction <<numerator, denominator>>
    registered,     \* history: every register call so far, <<query, result>>, in call order
    dlast,          \* history: the last deduplicator call, its argument and what it returned
    \* similarity as a function of two strings
    q1in, q2in,     \* the two strings
    simOut,         \* what similarity returned for them, in both orders and for each with itself
    \* PydanticParserWithRetry (src/src/config.py): the call in progress
    dec,
    \* GraphState (src/src/models.py) of the run in progress; an Optional field is <<>> or <<value>>
    user_query,
    session_memory,
    classification,
    react_chain,        \* the action of each ReActThought
    agent_outputs,
    final_answer,
    execution_log,
    errors,
    retrieved_context,
    node,               \* the node the graph runs next, END once the run returned, RAISED once it raised
    notes,              \* the text of notes.txt
    executed,           \* history: the nodes run so far, in order
    decoderRaised,      \* history: the nodes whose invoke_with_retry call raised
    \* the loop of test_caching (src/tests/test_caching.py)
    drv,
    \* threads calling the shared cache and deduplicator: each thread's call in progress
    threads

cacheVars == <<cache, stats, max_size, ttl, now, last, lastPut, run>>

dedupVars == <<processed_queries, threshold, registered, dlast>>

simVars == <<q1in, q2in, simOut>>

decVars == <<dec>>

graphVars == <<user_query, session_memory, classification, react_chain, agent_outputs,
               final_answer, execution_log, errors, retrieved_context, node, notes,
               executed, decoderRaised>>

driverVars == <<drv>>

threadVars == <<threads>>

vars == <<cacheVars, dedupVars, simVars, decVars, graphVars, driverVars, threadVars>>

None == "None"

\* the argument recorded for a step that has none
NoQuery == <<>>

-----------------------------------------------------------------------------
(* Bounds of the model *)

MaxTime == 3        \* the clock stops advancing here
MaxSkew == 1        \* largest advance of the clock between the two reads of one put
MaxGets == 1        \* number of get calls per behaviour
MaxRegs == 3        \* number of register calls per behaviour
MaxStrLen == 3      \* longest string handed to similarity
MaxBudget == 3      \* largest max_retries a parser is built with
MaxCalls == 3       \* number of calls the threads make per behaviour

-----------------------------------------------------------------------------
(* Inputs *)

Queries ==
    { <<"a", "b">>, <<"A", "b", " ">>, <<"a", "c">>, <<"c", "c">> }

Results == { "r1", "r2" }

\* max_size and ttl a QueryCache is built with (ttl in clock ticks)
CacheSizes == { 1, 2 }

Ttls == { 2 }

\* similarity_threshold a RequestDeduplicator is built with; 4/5 is the shared instance's 0.80
Thresholds == { [num |-> 1, den |-> 2, raised |-> "nothing"], [num |-> 4, den |-> 5, raised |-> "nothing"] }

Alphabet == { "a", "A", "b", " " }

\* (result, execution_time) pairs handed to put
Payloads == { <<"r1", 1>>, <<"r2", 2>> }

-----------------------------------------------------------------------------
(* str.lower, str.strip *)

LowerChar(c) == IF c = "A" THEN "a" ELSE IF c = "B" THEN "b" ELSE IF c = "C" THEN "c" ELSE c

IsSpace(c) == c = " "

lower(s) == [i \in 1..Len(s) |-> LowerChar(s[i])]

RECURSIVE lstrip(_)
lstrip(s) == IF s # <<>> /\ IsSpace(Head(s)) THEN lstrip(Tail(s)) ELSE s

RECURSIVE rstrip(_)
rstrip(s) == IF s # <<>> /\ IsSpace(s[Len(s)]) THEN rstrip(SubSeq(s, 1, Len(s) - 1)) ELSE s

strip(s) == rstrip(lstrip(s))

-----------------------------------------------------------------------------
(* QueryCache *)

\* hashlib.md5(...).hexdigest(): a digest determined by the bytes hashed.  Distinct
\* inputs get distinct digests here; collisions of the real digest are not represented.
md5(bytes) == <<"md5", bytes>>

get_hashRaw(query) == md5(query)

get_hash(query) == md5(strip(lower(query)))

Keys(c) == { c[i].key : i \in 1..Len(c) }

IndexOf(c, k) == CHOOSE i \in 1..Len(c) : c[i].key = k

Lookup(c, k) == c[IndexOf(c, k)]

DelKeyOldest(c, k) == Tail(c)

\* del d[k]
DelKey(c, k) ==
    LET i == IndexOf(c, k)
    IN  SubSeq(c, 1, i - 1) \o SubSeq(c, i + 1, Len(c))

SetKeyLast(c, k, v) ==
    IF k \in Keys(c)
    THEN Append(DelKey(c, k), v)
    ELSE Append(c, v)

\* d[k] = v : an existing key keeps its place, a new key goes last
SetKey(c, k, v) ==
    IF k \in Keys(c)
    THEN [c EXCEPT ![IndexOf(c, k)] = v]
    ELSE Append(c, v)

\* min(self.cache.keys(), key=timestamp): the first key, in dict order, of least timestamp
OldestKeyNewest(c) ==
    LET i == CHOOSE i \in 1..Len(c) :
                 /\ \A j \in 1..Len(c) : c[i].timestamp >= c[j].timestamp
                 /\ \A j \in 1..(i - 1) : c[j].timestamp < c[i].timestamp
    IN  c[i].key

OldestKey(c) ==
    LET i == CHOOSE i \in 1..Len(c) :
                 /\ \A j \in 1..Len(c) : c[i].timestamp <= c[j].timestamp
                 /\ \A j \in 1..(i - 1) : c[j].timestamp > c[i].timestamp
    IN  c[i].key

AtCapacityStrict(c, m) == Len(c) > m

\* len(self.cache) >= self.max_size
AtCapacity(c, m) == Len(c) >= m

ExpiredAtDeadline(entry, t) == t >= entry.expires

\* datetime.now() > entry["expires"]
Expired(entry, t) == t > entry.expires

\* datetime.now() + self.ttl
ExpiresAt(t2, d) == t2 + d

\* the dict after put; t1 and t2 are the two clock readings of the call
PutCache(c, m, d, query, result, execution_time, t1, t2) ==
    LET query_hash == get_hash(query)
        evicted == IF AtCapacity(c, m) THEN DelKey(c, OldestKey(c)) ELSE c
        entry == [ key |-> query_hash,
                   query |-> query,
                   result |-> result,
                   execution_time |-> execution_time,
                   timestamp |-> t1,
                   expires |-> ExpiresAt(t2, d) ]
    IN  SetKey(evicted, query_hash, entry)

RunAfterPut(query) ==
    IF run >= 0 /\ run <= max_size /\ get_hash(query) \notin Keys(cache)
    THEN run + 1
    ELSE -1

Restrict(f, S) == [k \in S |-> f[k]]

Put(query, result, execution_time, skew) ==
    /\ now + skew <= MaxTime
    /\ cache' = PutCache(cache, max_size, ttl, query, result, execution_time, now, now + skew)
    /\ now' = now + skew
    /\ last' = [op |-> "put", query |-> query, ret |-> None]
    /\ lastPut' = [k \in Keys(cache') |->
                      IF k = get_hash(query)
                      THEN [query |-> query, result |-> result,
                            execution_time |-> execution_time, t1 |-> now, t2 |-> now + skew]
                      ELSE lastPut[k]]
    /\ run' = RunAfterPut(query)
    /\ UNCHANGED <<stats, max_size, ttl>>
    /\ UNCHANGED <<dedupVars, simVars, decVars, graphVars, driverVars, threadVars>>

Get(query) ==
    LET query_hash == get_hash(query)
    IN  /\ stats.hits + stats.misses < MaxGets
        /\ IF query_hash \notin Keys(cache)
           THEN /\ stats' = [stats EXCEPT !.misses = @ + 1]
                /\ last' = [op |-> "get", query |-> query, ret |-> None]
                /\ UNCHANGED <<cache, run>>
           ELSE LET entry == Lookup(cache, query_hash)
                IN  IF Expired(entry, now)
                    THEN /\ cache' = DelKey(cache, query_hash)
                         /\ stats' = [stats EXCEPT !.misses = @ + 1]
                         /\ last' = [op |-> "get", query |-> query, ret |-> None]
                         /\ run' = -1
                    ELSE /\ stats' = [stats EXCEPT !.hits = @ + 1,
                                                   !.total_saved_time = @ + entry.execution_time]
                         /\ last' = [op |-> "get", query |-> query, ret |-> entry.result]
                         /\ UNCHANGED <<cache, run>>
        /\ lastPut' = Restrict(lastPut, Keys(cache'))
        /\ UNCHANGED <<max_size, ttl, now>>
        /\ UNCHANGED <<dedupVars, simVars, decVars, graphVars, driverVars, threadVars>>

Clear ==
    /\ cache' = <<>>
    /\ last' = [op |-> "clear", query |-> NoQuery, ret |-> None]
    /\ lastPut' = Restrict(lastPut, {})
    /\ run' = 0
    /\ UNCHANGED <<stats, max_size, ttl, now>>
    /\ UNCHANGED <<dedupVars, simVars, decVars, graphVars, driverVars, threadVars>>

\* time passes between two calls
Tick ==
    /\ now < MaxTime
    /\ now' = now + 1
    /\ last' = [op |-> "tick", query |-> NoQuery, ret |-> None]
    /\ UNCHANGED <<cache, stats, max_size, ttl, lastPut, run>>
    /\ UNCHANGED <<dedupVars, simVars, decVars, graphVars, driverVars, threadVars>>

-----------------------------------------------------------------------------
(* RequestDeduplicator *)

Min3(a, b, c) == IF a <= b /\ a <= c THEN a ELSE IF b <= c THEN b ELSE c

\* the inner loop of levenshtein_distance: current_row for the character c1 of s1,
\* grown from [i + 1] by one cell per character of s2
RECURSIVE CurrentRow(_, _, _, _)
CurrentRow(previous_row, current_row, c1, s2) ==
    IF Len(current_row) = Len(s2) + 1
    THEN current_row
    ELSE LET j == Len(current_row)      \* 1-based place of c2 in s2
             insertions == previous_row[j + 1] + 1
             deletions == current_row[j] + 1
             substitutions == previous_row[j] + (IF c1 # s2[j] THEN 1 ELSE 0)
         IN  CurrentRow(previous_row,
                        Append(current_row, Min3(insertions, deletions, substitutions)),
                        c1, s2)

\* the outer loop: previous_row after the characters i.. of s1
RECURSIVE Rows(_, _, _, _)
Rows(previous_row, i, s1, s2) ==
    IF i > Len(s1)
    THEN previous_row
    ELSE Rows(CurrentRow(previous_row, <<i>>, s1[i], s2), i + 1, s1, s2)

levenshtein_distanceNoInsertions(s1, s2) ==
    IF Len(s1) < Len(s2)
    THEN Len(s2)
    ELSE IF Len(s2) = 0
         THEN Len(s1)
         ELSE Rows([j \in 1..(Len(s2) + 1) |-> j - 1], 1, s1, s2)[Len(s2) + 1]

RECURSIVE levenshtein_distance(_, _)
levenshtein_distance(s1, s2) ==
    IF Len(s1) < Len(s2)
    THEN levenshtein_distance(s2, s1)
    ELSE IF Len(s2) = 0
         THEN Len(s1)
         ELSE Rows([j \in 1..(Len(s2) + 1) |-> j - 1], 1, s1, s2)[Len(s2) + 1]

\* A float is the fraction <<numerator, denominator>> it stands for; a division by
\* zero raises.
Float(n, d) == [num |-> n, den |-> d, raised |-> "nothing"]

ZeroDivisionError == [num |-> 0, den |-> 0, raised |-> "ZeroDivisionError"]

One == Float(1, 1)

Divide(a, b) == IF b = 0 THEN ZeroDivisionError ELSE Float(a, b)

OneMinus(x) == IF x = ZeroDivisionError THEN ZeroDivisionError ELSE Float(x.den - x.num, x.den)

FloatEq(x, y) ==
    /\ x # ZeroDivisionError
    /\ y # ZeroDivisionError
    /\ x.num * y.den = y.num * x.den

FloatGe(x, y) == x.num * y.den >= y.num * x.den

FloatGt(x, y) == x.num * y.den > y.num * x.den

Max(a, b) == IF a >= b THEN a ELSE b

similarityFirstLength(q1, q2) ==
    LET s1 == strip(lower(q1))
        s2 == strip(lower(q2))
    IN  IF s1 = s2
        THEN One
        ELSE LET max_len == Len(s1)
             IN  IF max_len = 0
                 THEN One
                 ELSE OneMinus(Divide(levenshtein_distance(s1, s2), max_len))

similarityUnguarded(q1, q2) ==
    LET s1 == strip(lower(q1))
        s2 == strip(lower(q2))
        max_len == Max(Len(s1), Len(s2))
    IN  OneMinus(Divide(levenshtein_distance(s1, s2), max_len))

similarity(q1, q2) ==
    LET s1 == strip(lower(q1))
        s2 == strip(lower(q2))
    IN  IF s1 = s2
        THEN One
        ELSE LET max_len == Max(Len(s1), Len(s2))
             IN  IF max_len = 0
                 THEN One
                 ELSE OneMinus(Divide(levenshtein_distance(s1, s2), max_len))

IsDuplicateStrict(sim, thr) == FloatGt(sim, thr)

\* sim >= self.threshold
IsDuplicate(sim, thr) == FloatGe(sim, thr)

\* the scan of find_duplicate over the items i.. of the dict
RECURSIVE Scan(_, _, _, _)
Scan(items, i, query, thr) ==
    IF i > Len(items)
    THEN None
    ELSE IF IsDuplicate(similarity(query, items[i].key), thr)
         THEN items[i].result
         ELSE Scan(items, i + 1, query, thr)

find_duplicate(items, query, thr) == Scan(items, 1, query, thr)

FindDuplicate(query) ==
    /\ dlast' = [op |-> "find_duplicate", query |-> query,
                 ret |-> find_duplicate(processed_queries, query, threshold)]
    /\ UNCHANGED <<processed_queries, threshold, registered>>
    /\ UNCHANGED <<cacheVars, simVars, decVars, graphVars, driverVars, threadVars>>

Register(query, result) ==
    /\ Len(registered) < MaxRegs
    /\ processed_queries' = SetKey(processed_queries, query, [key |-> query, result |-> result])
    /\ registered' = Append(registered, <<query, result>>)
    /\ dlast' = [op |-> "register", query |-> query, ret |-> None]
    /\ UNCHANGED threshold
    /\ UNCHANGED <<cacheVars, simVars, decVars, graphVars, driverVars, threadVars>>

-----------------------------------------------------------------------------
(* similarity applied to a pair of strings *)

RECURSIVE StringsUpTo(_)
StringsUpTo(n) ==
    IF n = 0
    THEN { <<>> }
    ELSE LET shorter == StringsUpTo(n - 1)
         IN  shorter \cup { Append(s, c) : s \in shorter, c \in Alphabet }

Similarities ==
    /\ ~simOut.done
    /\ simOut' = [ done |-> TRUE,
                   distance |-> levenshtein_distance(q1in, q2in),
                   ab |-> similarity(q1in, q2in),
                   ba |-> similarity(q2in, q1in),
                   aa |-> similarity(q1in, q1in),
                   bb |-> similarity(q2in, q2in) ]
    /\ UNCHANGED <<q1in, q2in>>
    /\ UNCHANGED <<cacheVars, dedupVars, decVars, graphVars, driverVars, threadVars>>

-----------------------------------------------------------------------------
(* PydanticParserWithRetry.  A call is suspended only while the backend works on  *)
(* a generation or on a correction; everything between two backend calls is one   *)
(* step.  A backend text is [kind, data]: "valid" (decodes to a record of the     *)
(* parser's schema, data = <<record>>), "invalid" (json.JSONDecodeError or        *)
(* ValidationError) or "nonmapping" (JSON that is no object: TypeError).          *)

\* max_retries of the parsers the nodes build (the default of __init__)
MaxRetries == 3

NoText == [kind |-> "none", data |-> <<>>]

IdleDecoder ==
    [ phase |-> "idle",         \* idle, generating, correcting, returned, raised
      entry |-> "none",         \* the method called: parse_with_retry ("decode") or invoke_with_retry ("generate")
      max_retries |-> MaxRetries,   \* self.max_retries
      schema |-> "none",        \* self.model
      missing |-> FALSE,        \* the prompt has input variables that input_dict lacks
      attempt |-> 0,            \* the loop variable of invoke_with_retry
      pattempt |-> 0,           \* the loop variable of parse_with_retry
      llm_output |-> NoText,
      result |-> <<>>,          \* once returned: <<record>>, or <<>> for None
      raised |-> "nothing",     \* the exception once raised
      generations |-> 0,        \* history: chain.invoke calls that reached the backend
      corrections |-> 0,        \* history: corrective llm.invoke calls
      decodes |-> 0,            \* history: decode attempts
      sleeps |-> <<>>,          \* history: the time.sleep calls, in units of 0.5 s
      traced |-> FALSE,         \* history is kept of this call: a parser called directly
      trace |-> <<>> ]          \* history: <<call, outcome>> of every backend call, in order,
                                \* after <<"raw", kind>> for the text handed to parse_with_retry

\* the call d with one more entry in its history
Log(d, e) == IF d.traced THEN [d EXCEPT !.trace = Append(@, e)] ELSE d

RECURSIVE ChainLoop(_)
RECURSIVE ChainExcept(_, _)

ChainExceptFixedBackoff(d, exc) ==
    IF d.attempt = d.max_retries - 1
    THEN [d EXCEPT !.phase = "raised", !.raised = exc]
    ELSE ChainLoop([d EXCEPT !.sleeps = Append(@, 1),
                             !.attempt = @ + 1])

\* one pass of the for loop of invoke_with_retry, from the range test to the backend
\* call: the prompt is formatted with input_dict (KeyError when a variable is
\* missing), then sent; past the range the method falls off its end and returns None
ChainLoop(d) ==
    IF d.attempt >= d.max_retries
    THEN [d EXCEPT !.phase = "returned", !.result = <<>>]
    ELSE IF d.missing
         THEN ChainExcept(d, "KeyError")
         ELSE [d EXCEPT !.phase = "generating", !.generations = @ + 1]

\* except Exception of invoke_with_retry
ChainExcept(d, exc) ==
    IF d.attempt = d.max_retries - 1
    THEN [d EXCEPT !.phase = "raised", !.raised = exc]
    ELSE ChainLoop([d EXCEPT !.sleeps = Append(@, d.attempt + 1),
                             !.attempt = @ + 1])

\* an exception leaves parse_with_retry: into the try of invoke_with_retry, or to
\* the caller of parse_with_retry
ParseRaise(d, exc) ==
    IF d.entry = "generate"
    THEN ChainExcept(d, exc)
    ELSE [d EXCEPT !.phase = "raised", !.raised = exc]

\* one pass of the for loop of parse_with_retry on d.llm_output, from the range
\* test on: it returns, raises, or issues the corrective call
ParseLoop(d) ==
    IF d.pattempt >= d.max_retries
    THEN [d EXCEPT !.phase = "returned", !.result = <<>>]
    ELSE LET d1 == [d EXCEPT !.decodes = @ + 1]
         IN  IF d.llm_output.kind = "valid"
             THEN [d1 EXCEPT !.phase = "returned", !.result = d.llm_output.data]
             ELSE IF d.llm_output.kind = "nonmapping"
                  THEN ParseRaise(d1, "TypeError")
                  ELSE IF d.pattempt = d.max_retries - 1
                       THEN ParseRaise(d1, "ValueError")
                       ELSE [d1 EXCEPT !.phase = "correcting", !.corrections = @ + 1]

\* parse_with_retry(llm_output) of a parser built with max_retries = n
parse_with_retry(schema, n, text) ==
    ParseLoop([IdleDecoder EXCEPT !.entry = "decode", !.schema = schema, !.max_retries = n,
                                  !.llm_output = text])

\* invoke_with_retry(prompt, input_dict) of a parser built with max_retries = n,
\* up to its first backend call
invoke_with_retry(schema, n, missing) ==
    ChainLoop([IdleDecoder EXCEPT !.entry = "generate", !.schema = schema, !.max_retries = n,
                                  !.missing = missing])

\* chain.invoke returned text: parse_with_retry(output.content)
AfterGeneration(d, text) ==
    ParseLoop(Log([d EXCEPT !.llm_output = text, !.pattempt = 0],
                  <<"generation", text.kind>>))

\* chain.invoke raised (the call failed or timed out)
AfterGenerationFailure(d) ==
    ChainExcept(Log(d, <<"generation", "failed">>), "BackendError")

\* the corrective llm.invoke returned text: llm_output = corrected.content
AfterCorrection(d, text) ==
    ParseLoop(Log([d EXCEPT !.llm_output = text, !.pattempt = @ + 1],
                  <<"correction", text.kind>>))

AfterCorrectionFailureRaises(d) ==
    ParseRaise(Log(d, <<"correction", "failed">>), "BackendError")

\* the corrective llm.invoke raised: continue with llm_output as it was
AfterCorrectionFailure(d) ==
    ParseLoop(Log([d EXCEPT !.pattempt = @ + 1], <<"correction", "failed">>))

Finished(d) == d.phase \in {"returned", "raised"}

-----------------------------------------------------------------------------
(* Texts are sequences of tokens.  "{x}" is a replacement field and "}" a lone  *)
(* brace; every other token is free of braces.                                   *)

Range(f) == { f[i] : i \in DOMAIN f }

RECURSIVE Concat(_)
Concat(texts) == IF texts = <<>> THEN <<>> ELSE Head(texts) \o Concat(Tail(texts))

\* PromptTemplate.from_template: string.Formatter().parse raises ValueError on a lone brace
FromTemplateRaises(template) == "}" \in Range(template)

\* the input variables of the template
InputVariables(template) ==
    {"query"} \cup (IF "{x}" \in Range(template) THEN {"x"} ELSE {})

\* the records a backend text can decode to, per schema
QueryTypes == { "theory", "design", "code", "planning", "other" }

ValidRecords(schema) ==
    IF schema = "QueryClassification"
    THEN { [query_type |-> t, agent_path |-> p] :
               t \in QueryTypes, p \in { <<>>, <<"router", "synthesizer">> } }
    ELSE IF schema = "TheoryExplanation"
    THEN { [topic |-> <<"TOPIC">>, explanation |-> e, key_concepts |-> k, examples |-> x] :
               e \in { <<>>, <<"EXPLANATION">> },
               k \in { <<>>, << <<"CONCEPT">> >> },
               x \in { <<>>, << <<"EXAMPLE">> >> } }
    ELSE IF schema = "DesignAdvice"
    THEN { [design_patterns |-> dp, architecture_recommendation |-> <<"ARCHITECTURE">>] :
               dp \in { <<>>, << <<"PATTERN">> >> } }
    ELSE IF schema = "CodeSolution"
    THEN { [problem |-> <<"PROBLEM">>, solution_explanation |-> <<"SOLUTION">>, code |-> c] :
               c \in { <<"CODE">>, <<"CODE", "}">> } }
    ELSE IF schema = "PlanOutput"
    THEN { [goal |-> <<"GOAL">>, timeline |-> <<"TIMELINE">>, steps |-> st] :
               st \in { << [title |-> << <<"TITLE">> >>, description |-> << <<"DESCRIPTION">> >>] >>,
                        << [title |-> <<>>, description |-> << <<"DESCRIPTION">> >>] >> } }
    ELSE {}

BackendTexts(schema) ==
    { [kind |-> "valid", data |-> <<r>>] : r \in ValidRecords(schema) }
        \cup { [kind |-> "invalid", data |-> <<>>], [kind |-> "nonmapping", data |-> <<>>] }

-----------------------------------------------------------------------------
(* The graph: router_node, memory_retriever_node, the four specialists,       *)
(* synthesizer_node, route_to_agents and the edges of build_graph.            *)

END == "__end__"

RAISED == "raised"

\* no graph run: the parser is called directly
Caller == "caller"

Specialists == { "theory_explainer", "design_advisor", "code_helper", "planner" }

\* the query_type a specialist activates on, its agent_outputs key, its schema and
\* the name it records errors under
SpecialistOf ==
    [ theory_explainer |-> [key |-> "theory", schema |-> "TheoryExplanation",
                            error |-> "Theory", ok |-> "OK: Theory (with tool)",
                            action |-> "call_knowledge_base"],
      design_advisor |-> [key |-> "design", schema |-> "DesignAdvice",
                          error |-> "Design", ok |-> "OK: Design",
                          action |-> "Generate architecture advice"],
      code_helper |-> [key |-> "code", schema |-> "CodeSolution",
                       error |-> "Code", ok |-> "OK: Code (with tool)",
                       action |-> "call_python_executor"],
      planner |-> [key |-> "planning", schema |-> "PlanOutput",
                   error |-> "Planner", ok |-> "OK: Planner (with tool)",
                   action |-> "call_note_taker"] ]

route_to_agentsDefaultPlanner(cls) ==
    IF cls = <<>>
    THEN "planner"
    ELSE LET query_type == cls[1].query_type
         IN  IF query_type = "theory" THEN "theory_explainer"
             ELSE IF query_type = "design" THEN "design_advisor"
             ELSE IF query_type = "code" THEN "code_helper"
             ELSE IF query_type = "planning" THEN "planner"
             ELSE "synthesizer"

route_to_agents(cls) ==
    IF cls = <<>>
    THEN "synthesizer"
    ELSE LET query_type == cls[1].query_type
         IN  IF query_type = "theory" THEN "theory_explainer"
             ELSE IF query_type = "design" THEN "design_advisor"
             ELSE IF query_type = "code" THEN "code_helper"
             ELSE IF query_type = "planning" THEN "planner"
             ELSE "synthesizer"

\* the conditional edges out of router
RouterEdgeThroughMemory(target) == "memory_retriever"

RouterEdge(target) == IF target = "synthesizer" THEN "synthesizer" ELSE "memory_retriever"

\* the conditional edges out of memory_retriever
MemoryEdge(target) == target

\* read_notes()
read_notes(file) ==
    IF file = <<>>
    THEN <<"No notes found yet.">>
    ELSE IF file[1] = <<>> THEN <<"Notes file is empty.">> ELSE file[1]

\* save_to_notes(content): the file after the append
save_to_notes(file, content) ==
    << (IF file = <<>> THEN <<>> ELSE file[1]) \o <<"====">> \o content \o <<"====">> >>

\* memory_context of a specialist: the last two turns and the retrieved notes
memory_context(memory, context) ==
    LET history == memory.conversation_history
        recent == SubSeq(history, Max(1, Len(history) - 1), Len(history))
    IN  (IF history # <<>>
         THEN <<"Short-term history:">>
                  \o Concat([i \in 1..Len(recent) |->
                                <<"User:">> \o recent[i].query \o <<"Agent:">> \o recent[i].response])
         ELSE <<>>)
        \o (IF context # <<>> THEN <<"Long-term notes context:">> \o context ELSE <<>>)

\* the template of a specialist's prompt
SpecialistTemplate(memory, context) ==
    <<"system_msg">> \o memory_context(memory, context) \o <<"{query}", "Provide:">>

\* the statements of a specialist's try block after invoke_with_retry returned
\* output raise: planner_node reads s['title'] of every step
AfterParseRaises(n, output) ==
    /\ n = "planner"
    /\ \E i \in 1..Len(output.steps) : output.steps[i].title = <<>>

final_answer_textExamplesOnly(outputs, cls) ==
    IF "theory" \in DOMAIN outputs
    THEN Concat([i \in 1..Len(outputs["theory"].examples) |-> <<"- ">> \o outputs["theory"].examples[i]])
    ELSE <<"Processed query through: ">>

\* final_answer_text of synthesizer_node
final_answer_text(outputs, cls) ==
    IF "theory" \in DOMAIN outputs
    THEN LET theory == outputs["theory"]
         IN  theory.explanation
                 \o (IF theory.examples # <<>>
                     THEN <<"Examples:">> \o Concat([i \in 1..Len(theory.examples) |->
                                                        <<"- ">> \o theory.examples[i]])
                     ELSE <<>>)
    ELSE IF "design" \in DOMAIN outputs
    THEN LET design == outputs["design"]
         IN  design.architecture_recommendation
                 \o (IF design.design_patterns # <<>>
                     THEN <<"Recommended Design Patterns:">>
                              \o Concat([i \in 1..Len(design.design_patterns) |->
                                            <<"- ">> \o design.design_patterns[i]])
                     ELSE <<>>)
    ELSE IF "code" \in DOMAIN outputs
    THEN LET code == outputs["code"]
         IN  code.solution_explanation \o <<"fence python">> \o code.code \o <<"fence">>
    ELSE IF "planning" \in DOMAIN outputs
    THEN LET plan == outputs["planning"]
         IN  <<"Goal: ">> \o plan.goal \o <<"Timeline: ">> \o plan.timeline \o <<"Steps:">>
                 \o Concat([i \in 1..Len(plan.steps) |->
                               IF plan.steps[i].description # <<>>
                               THEN plan.steps[i].description[1]
                               ELSE <<"Unknown step">>])
    ELSE LET agent_chain == IF cls # <<>> THEN cls[1].agent_path ELSE <<"unknown">>
         IN  <<"Processed query through: ">> \o agent_chain
                 \o <<". Available outputs: ">> \o <<"none">>

\* the keys of agent_outputs, in insertion order: a run inserts at most one key,
\* and a state built by hand inserts them in the order theory, design, code, planning
OutputKeys(outputs) ==
    LET Present(k) == k \in DOMAIN outputs
    IN  SelectSeq(<<"theory", "design", "code", "planning">>, Present)

stateVars == <<user_query, session_memory, classification, react_chain, agent_outputs,
               final_answer, execution_log, errors, retrieved_context>>

\* router_node from the return or the raise of invoke_with_retry on, and the edge
RouterReturns(d) ==
    /\ IF d.phase = "returned"
       THEN /\ classification' = d.result
            /\ react_chain' = Append(react_chain, "Route to query_type")
            /\ execution_log' = Append(execution_log, "OK: Router")
            /\ retrieved_context' = <<>>
            /\ UNCHANGED errors
       ELSE /\ errors' = Append(errors, <<"Router", d.raised>>)
            /\ execution_log' = Append(execution_log, "FAILED: Router")
            /\ UNCHANGED <<classification, react_chain, retrieved_context>>
    /\ node' = RouterEdge(route_to_agents(classification'))
    /\ UNCHANGED <<user_query, session_memory, agent_outputs, final_answer, notes>>

WithOutputUnderNode(outputs, key, record) == (node :> record) @@ outputs

\* {**state.get("agent_outputs", {}), key: record}
WithOutput(outputs, key, record) == (key :> record) @@ outputs

\* a specialist from the return or the raise of invoke_with_retry on, and the edge
SpecialistReturns(n, d) ==
    LET me == SpecialistOf[n]
    IN  /\ IF d.phase = "returned" /\ ~AfterParseRaises(n, d.result[1])
           THEN /\ agent_outputs' = WithOutput(agent_outputs, me.key, d.result[1])
                /\ react_chain' = Append(react_chain, me.action)
                /\ execution_log' = Append(execution_log, me.ok)
                /\ notes' = IF n = "planner"
                            THEN save_to_notes(notes, <<"Goal: ">> \o d.result[1].goal \o <<"Steps: ">>
                                     \o Concat([i \in 1..Len(d.result[1].steps) |->
                                                   d.result[1].steps[i].title[1]]))
                            ELSE notes
                /\ UNCHANGED errors
           ELSE /\ errors' = Append(errors, <<me.error, IF d.phase = "returned" THEN "KeyError" ELSE d.raised>>)
                /\ UNCHANGED <<agent_outputs, react_chain, execution_log, notes>>
        /\ node' = "synthesizer"
        /\ UNCHANGED <<user_query, session_memory, classification, final_answer, retrieved_context>>

\* the node that called invoke_with_retry goes on once the call d is over; until
\* then the run waits for the backend.  A parser used outside a graph run hands
\* its outcome to its caller
DecoderStep(d) ==
    IF node = Caller
    THEN /\ dec' = d
         /\ UNCHANGED <<stateVars, node, notes, decoderRaised>>
    ELSE IF Finished(d)
    THEN /\ dec' = IdleDecoder
         /\ decoderRaised' = IF d.phase = "raised" THEN decoderRaised \cup {node} ELSE decoderRaised
         /\ IF node = "router" THEN RouterReturns(d) ELSE SpecialistReturns(node, d)
    ELSE /\ dec' = d
         /\ UNCHANGED <<stateVars, node, notes, decoderRaised>>

\* router_node up to its first backend call
RouterEnter ==
    /\ node = "router"
    /\ dec.phase = "idle"
    /\ executed' = Append(executed, "router")
    /\ DecoderStep(invoke_with_retry("QueryClassification", MaxRetries, FALSE))
    /\ UNCHANGED <<cacheVars, dedupVars, simVars, driverVars, threadVars>>

MemoryRetriever ==
    /\ node = "memory_retriever"
    /\ executed' = Append(executed, "memory_retriever")
    /\ retrieved_context' = read_notes(notes)
    /\ react_chain' = Append(react_chain, "call_note_reader")
    /\ execution_log' = Append(execution_log, "OK: Memory Retriever")
    /\ node' = MemoryEdge(route_to_agents(classification))
    /\ UNCHANGED <<user_query, session_memory, classification, agent_outputs, final_answer,
                   errors, notes, decoderRaised, dec>>
    /\ UNCHANGED <<cacheVars, dedupVars, simVars, driverVars, threadVars>>

\* a specialist up to its first backend call; the prompt is built before the try
SpecialistEnter(n) ==
    /\ node = n
    /\ dec.phase = "idle"
    /\ executed' = Append(executed, n)
    /\ IF classification = <<>> \/ classification[1].query_type # SpecialistOf[n].key
       THEN /\ node' = "synthesizer"
            /\ UNCHANGED <<stateVars, notes, decoderRaised, dec>>
       ELSE LET template == SpecialistTemplate(session_memory, retrieved_context)
            IN  IF FromTemplateRaises(template)
                THEN /\ node' = RAISED
                     /\ UNCHANGED <<stateVars, notes, decoderRaised, dec>>
                ELSE DecoderStep(invoke_with_retry(SpecialistOf[n].schema, MaxRetries,
                                                   InputVariables(template) # {"query"}))
    /\ UNCHANGED <<cacheVars, dedupVars, simVars, driverVars, threadVars>>

GenerationReturns(text) ==
    /\ node \in Specialists \cup {"router", Caller}
    /\ dec.phase = "generating"
    /\ text \in BackendTexts(dec.schema)
    /\ DecoderStep(AfterGeneration(dec, text))
    /\ UNCHANGED executed
    /\ UNCHANGED <<cacheVars, dedupVars, simVars, driverVars, threadVars>>

GenerationFails ==
    /\ node \in Specialists \cup {"router", Caller}
    /\ dec.phase = "generating"
    /\ DecoderStep(AfterGenerationFailure(dec))
    /\ UNCHANGED executed
    /\ UNCHANGED <<cacheVars, dedupVars, simVars, driverVars, threadVars>>

CorrectionReturns(text) ==
    /\ node \in Specialists \cup {"router", Caller}
    /\ dec.phase = "correcting"
    /\ text \in BackendTexts(dec.schema)
    /\ DecoderStep(AfterCorrection(dec, text))
    /\ UNCHANGED executed
    /\ UNCHANGED <<cacheVars, dedupVars, simVars, driverVars, threadVars>>

CorrectionFails ==
    /\ node \in Specialists \cup {"router", Caller}
    /\ dec.phase = "correcting"
    /\ DecoderStep(AfterCorrectionFailure(dec))
    /\ UNCHANGED executed
    /\ UNCHANGED <<cacheVars, dedupVars, simVars, driverVars, threadVars>>

UpdateSessionMemoryHistoryOnly(memory, query, text, outputs) ==
    [ memory EXCEPT !.conversation_history =
                        Append(@, [ query |-> query, response |-> text,
                                    agents_used |-> OutputKeys(outputs) ]) ]

\* the session memory after the appends of synthesizer_node
UpdateSessionMemory(memory, query, text, outputs) ==
    [ conversation_history |->
          Append(memory.conversation_history,
                 [ query |-> query,
                   response |-> text,
                   agents_used |-> OutputKeys(outputs) ]),
      previous_questions |-> Append(memory.previous_questions, query),
      learned_topics |->
          memory.learned_topics
              \o (IF "theory" \in DOMAIN outputs
                  THEN outputs["theory"].key_concepts
                  ELSE <<>>) ]

Synthesizer ==
    /\ node = "synthesizer"
    /\ executed' = Append(executed, "synthesizer")
    /\ LET text == final_answer_text(agent_outputs, classification)
       IN  /\ final_answer' = << [ react_thoughts |-> react_chain,
                                   final_answer |-> text,
                                   source_agent |-> "synthesizer",
                                   used_tools |-> <<>> ] >>
           /\ session_memory' = UpdateSessionMemory(session_memory, user_query, text, agent_outputs)
    /\ react_chain' = Append(react_chain, "Synthesize final answer")
    /\ execution_log' = Append(execution_log, "OK: Synthesizer")
    /\ node' = END
    /\ UNCHANGED <<user_query, classification, agent_outputs, errors, retrieved_context,
                   notes, decoderRaised, dec>>
    /\ UNCHANGED <<cacheVars, dedupVars, simVars, driverVars, threadVars>>

\* the values of max_retries a parser is built with
RetryBudgets == 0..MaxBudget

\* the schema of the parser called directly
DecoderSchemas == { "DesignAdvice" }

\* parse_with_retry called directly on a text, up to its first corrective call
Decode(n, schema, text) ==
    /\ node = Caller
    /\ dec.phase = "idle"
    /\ LET d == parse_with_retry(schema, n, text)
       IN  DecoderStep([d EXCEPT !.traced = TRUE, !.trace = << <<"raw", text.kind>> >>])
    /\ UNCHANGED executed
    /\ UNCHANGED <<cacheVars, dedupVars, simVars, driverVars, threadVars>>

\* invoke_with_retry called directly, up to its first backend call
Generate(n, schema, missing) ==
    /\ node = Caller
    /\ dec.phase = "idle"
    /\ DecoderStep([invoke_with_retry(schema, n, missing) EXCEPT !.traced = TRUE])
    /\ UNCHANGED executed
    /\ UNCHANGED <<cacheVars, dedupVars, simVars, driverVars, threadVars>>

\* texts a user, a backend or a notes file can hold
SampleTexts == { <<"words">>, <<"{x}">>, <<"}">> }

\* the session memory a run starts with: none, or one earlier turn
SessionMemories ==
    { [conversation_history |-> <<>>, previous_questions |-> <<>>, learned_topics |-> <<>>] }
        \cup { [ conversation_history |->
                     << [query |-> <<"earlier">>, response |-> r, agents_used |-> <<>>] >>,
                 previous_questions |-> << <<"earlier">> >>,
                 learned_topics |-> <<>> ] : r \in SampleTexts }

NotesFiles == { <<>>, << <<>> >> } \cup { <<t>> : t \in SampleTexts }

\* initial_state of run_assistant, handed to graph.invoke
InitGraph ==
    /\ user_query = <<"query">>
    /\ session_memory \in SessionMemories
    /\ classification = <<>>
    /\ react_chain = <<>>
    /\ agent_outputs = <<>>
    /\ final_answer = <<>>
    /\ execution_log = <<>>
    /\ errors = <<>>
    /\ retrieved_context = <<>>
    /\ node = "router"
    /\ notes \in NotesFiles
    /\ executed = <<>>
    /\ decoderRaised = {}
    /\ dec = IdleDecoder

\* a parser built outside a graph run, before its first call
InitDecoder ==
    /\ user_query = <<"query">>
    /\ session_memory \in { m \in SessionMemories : m.conversation_history = <<>> }
    /\ classification = <<>>
    /\ react_chain = <<>>
    /\ agent_outputs = <<>>
    /\ final_answer = <<>>
    /\ execution_log = <<>>
    /\ errors = <<>>
    /\ retrieved_context = <<>>
    /\ node = Caller
    /\ notes = <<>>
    /\ executed = <<>>
    /\ decoderRaised = {}
    /\ dec = IdleDecoder

NextDecoder ==
    \/ \E n \in RetryBudgets, schema \in DecoderSchemas :
           \E text \in BackendTexts(schema) : Decode(n, schema, text)
    \/ \E n \in RetryBudgets, schema \in DecoderSchemas, missing \in BOOLEAN :
           Generate(n, schema, missing)
    \/ \E text \in BackendTexts(dec.schema) : GenerationReturns(text)
    \/ GenerationFails
    \/ \E text \in BackendTexts(dec.schema) : CorrectionReturns(text)
    \/ CorrectionFails

IdleGraph ==
    /\ InitGraph
    /\ session_memory.conversation_history = <<>>
    /\ notes = <<>>

NextGraph ==
    \/ RouterEnter
    \/ MemoryRetriever
    \/ \E n \in Specialists : SpecialistEnter(n)
    \/ \E text \in BackendTexts(dec.schema) : GenerationReturns(text)
    \/ GenerationFails
    \/ \E text \in BackendTexts(dec.schema) : CorrectionReturns(text)
    \/ CorrectionFails
    \/ Synthesizer

-----------------------------------------------------------------------------
(* The loop of test_caching over test_queries: the driver that puts the cache  *)
(* and the deduplicator in front of graph.invoke.  One step handles a query up *)
(* to graph.invoke, the graph's nodes run as above, and one step handles what  *)
(* graph.invoke returned or raised.                                            *)

\* graph.invoke is not running
NoRun == "no run"

\* SessionMemory(session_id="cache_test")
NewSession == [conversation_history |-> <<>>, previous_questions |-> <<>>, learned_topics |-> <<>>]

\* execution_time=0.001 of the put of a similar query's result, in clock ticks
ReuseTime == 0

registerNothing(items, query, result) == items

\* the dict after register(query, result)
register(items, query, result) == SetKey(items, query, [key |-> query, result |-> result])

\* the index of the first item of the dict that find_duplicate accepts, 0 if none
RECURSIVE FirstDuplicate(_, _, _, _)
FirstDuplicate(items, i, query, thr) ==
    IF i > Len(items)
    THEN 0
    ELSE IF IsDuplicate(similarity(query, items[i].key), thr)
         THEN i
         ELSE FirstDuplicate(items, i + 1, query, thr)

\* lastPut after a put of query at clock readings t1, t2 that left the dict c
LastPutAfter(c, query, result, execution_time, t1, t2) ==
    [k \in Keys(c) |->
        IF k = get_hash(query)
        THEN [query |-> query, result |-> result,
              execution_time |-> execution_time, t1 |-> t1, t2 |-> t2]
        ELSE lastPut[k]]

\* the fields of GraphState while graph.invoke is not running
GraphAtRest ==
    /\ user_query' = NoQuery
    /\ session_memory' = NewSession
    /\ classification' = <<>>
    /\ react_chain' = <<>>
    /\ agent_outputs' = <<>>
    /\ final_answer' = <<>>
    /\ execution_log' = <<>>
    /\ errors' = <<>>
    /\ retrieved_context' = <<>>
    /\ node' = NoRun
    /\ executed' = <<>>
    /\ decoderRaised' = {}

\* one pass of the loop body for the next query, up to graph.invoke; drv.ops is
\* the history of the calls made for the query in hand, in order
DriverQuery ==
    /\ drv.pc = "idle"
    /\ drv.queue # <<>>
    /\ LET query == Head(drv.queue)
           query_hash == get_hash(query)
           present == query_hash \in Keys(cache)
           hit == present /\ ~Expired(Lookup(cache, query_hash), now)
           afterGet == IF present /\ ~hit THEN DelKey(cache, query_hash) ELSE cache
           dup == FirstDuplicate(processed_queries, 1, query, threshold)
       IN  IF hit
           THEN \* cached_result: continue
                LET entry == Lookup(cache, query_hash)
                IN  /\ stats' = [stats EXCEPT !.hits = @ + 1,
                                              !.total_saved_time = @ + entry.execution_time]
                    /\ drv' = [drv EXCEPT !.queue = Tail(@),
                                          !.ops = << <<"get", "hit">> >>,
                                          !.done = Append(@, [query |-> query, source |-> "cache",
                                                              result |-> <<entry.result>>,
                                                              at |-> now])]
                    /\ UNCHANGED <<cache, lastPut, processed_queries, registered, graphVars>>
           ELSE /\ stats' = [stats EXCEPT !.misses = @ + 1]
                /\ IF dup # 0
                   THEN \* dup_result: cache.put(query, dup_result, execution_time=0.001); continue
                        LET dup_result == processed_queries[dup].result
                        IN  /\ cache' = PutCache(afterGet, max_size, ttl, query, dup_result,
                                                 ReuseTime, now, now)
                            /\ lastPut' = LastPutAfter(cache', query, dup_result, ReuseTime, now, now)
                            /\ drv' = [drv EXCEPT !.queue = Tail(@),
                                                  !.ops = << <<"get", "miss">>,
                                                             <<"find_duplicate", "found">>,
                                                             <<"put", "stored">> >>,
                                                  !.done = Append(@, [query |-> query,
                                                                      source |-> "deduplicator",
                                                                      result |-> <<dup_result>>,
                                                                      at |-> now])]
                            /\ UNCHANGED <<processed_queries, registered, graphVars>>
                   ELSE \* state = {...}; graph.invoke(state)
                        /\ cache' = afterGet
                        /\ lastPut' = Restrict(lastPut, Keys(cache'))
                        /\ drv' = [drv EXCEPT !.pc = "running", !.query = query, !.started = now,
                                              !.ops = << <<"get", "miss">>,
                                                         <<"find_duplicate", "none">>,
                                                         <<"invoke", "called">> >>]
                        /\ user_query' = query
                        /\ session_memory' = drv.session
                        /\ classification' = <<>>
                        /\ react_chain' = <<>>
                        /\ agent_outputs' = <<>>
                        /\ final_answer' = <<>>
                        /\ execution_log' = <<>>
                        /\ errors' = <<>>
                        /\ retrieved_context' = <<>>
                        /\ node' = "router"
                        /\ executed' = <<>>
                        /\ decoderRaised' = {}
                        /\ UNCHANGED <<notes, processed_queries, registered>>
    /\ last' = [op |-> "driver", query |-> NoQuery, ret |-> None]
    /\ dlast' = [op |-> "driver", query |-> NoQuery, ret |-> None]
    /\ run' = -1
    /\ UNCHANGED <<max_size, ttl, now, threshold>>
    /\ UNCHANGED <<simVars, decVars, threadVars>>

\* graph.invoke returned: cache.put, dedup.register, session = result['session_memory']
DriverReturned ==
    /\ drv.pc = "running"
    /\ node = END
    /\ LET routing == IF classification # <<>> THEN classification[1].query_type ELSE "unknown"
           agents == OutputKeys(agent_outputs)
           cache_entry == [routing |-> routing, agents |-> agents, errors |-> Len(errors)]
           exec_time == now - drv.started
       IN  /\ cache' = PutCache(cache, max_size, ttl, drv.query, cache_entry, exec_time, now, now)
           /\ lastPut' = LastPutAfter(cache', drv.query, cache_entry, exec_time, now, now)
           /\ processed_queries' = register(processed_queries, drv.query, cache_entry)
           /\ registered' = Append(registered, <<drv.query, cache_entry>>)
           /\ drv' = [drv EXCEPT !.pc = "idle", !.queue = Tail(@), !.query = NoQuery,
                                 !.ops = @ \o << <<"put", "stored">>, <<"register", "stored">> >>,
                                 !.session = session_memory,
                                 !.done = Append(@, [query |-> drv.query, source |-> "graph",
                                                     result |-> <<cache_entry>>,
                                                     at |-> drv.started])]
    /\ GraphAtRest
    /\ last' = [op |-> "driver", query |-> NoQuery, ret |-> None]
    /\ dlast' = [op |-> "driver", query |-> NoQuery, ret |-> None]
    /\ run' = -1
    /\ UNCHANGED <<stats, max_size, ttl, now, threshold, notes>>
    /\ UNCHANGED <<simVars, decVars, threadVars>>

\* graph.invoke raised: except Exception prints the error
DriverRaised ==
    /\ drv.pc = "running"
    /\ node = RAISED
    /\ drv' = [drv EXCEPT !.pc = "idle", !.queue = Tail(@), !.query = NoQuery,
                          !.done = Append(@, [query |-> drv.query, source |-> "error",
                                              result |-> <<>>, at |-> drv.started])]
    /\ GraphAtRest
    /\ UNCHANGED <<cacheVars, dedupVars, notes>>
    /\ UNCHANGED <<simVars, decVars, threadVars>>

\* time passes between two queries, or while graph.invoke runs
DriverTick ==
    /\ drv.pc = "idle" \/ node \in {END, RAISED}
    /\ Tick

-----------------------------------------------------------------------------
(* main: the loop over TEST_QUERIES, each query handed to run_assistant under   *)
(* the one session_id.  One step builds initial_state and starts graph.invoke,  *)
(* the nodes run as above, and one step records what run_assistant returned.    *)

\* the last two of TEST_QUERIES: the planning query and its follow-up
TEST_QUERIES == << <<"schedule">>, <<"follow-up">> >>

\* run_assistant up to graph.invoke: initial_state with SessionMemory(session_id=session_id)
MainQuery ==
    /\ drv.pc = "idle"
    /\ drv.queue # <<>>
    /\ drv' = [drv EXCEPT !.pc = "running", !.query = Head(drv.queue), !.started = now]
    /\ user_query' = Head(drv.queue)
    /\ session_memory' = NewSession
    /\ classification' = <<>>
    /\ react_chain' = <<>>
    /\ agent_outputs' = <<>>
    /\ final_answer' = <<>>
    /\ execution_log' = <<>>
    /\ errors' = <<>>
    /\ retrieved_context' = <<>>
    /\ node' = "router"
    /\ executed' = <<>>
    /\ decoderRaised' = {}
    /\ UNCHANGED <<notes, cacheVars, dedupVars, simVars, decVars, threadVars>>

\* graph.invoke returned: run_assistant returns final_state, recorder.record
MainReturned ==
    /\ drv.pc = "running"
    /\ node = END
    /\ drv' = [drv EXCEPT !.pc = "idle", !.queue = Tail(@), !.query = NoQuery,
                          !.done = Append(@, [query |-> drv.query, source |-> "graph",
                                              result |-> <<>>, at |-> drv.started])]
    /\ GraphAtRest
    /\ UNCHANGED <<notes, cacheVars, dedupVars, simVars, decVars, threadVars>>

\* graph.invoke raised: run_assistant returns {"error", "errors"}, recorder.record
MainRaised ==
    /\ drv.pc = "running"
    /\ node = RAISED
    /\ drv' = [drv EXCEPT !.pc = "idle", !.queue = Tail(@), !.query = NoQuery,
                          !.done = Append(@, [query |-> drv.query, source |-> "error",
                                              result |-> <<>>, at |-> drv.started])]
    /\ GraphAtRest
    /\ UNCHANGED <<notes, cacheVars, dedupVars, simVars, decVars, threadVars>>

-----------------------------------------------------------------------------
(* Threads calling the shared QueryCache and RequestDeduplicator of get_cache()  *)
(* and get_deduplicator().  Neither class takes a lock, so the calls interleave  *)
(* between their statements: the capacity check, the choice of the oldest key,   *)
(* the eviction and the insertion of put; the presence check, the read, the      *)
(* expiry check, the removal and the read and write of each stats[...] += of     *)
(* get; every step of the iteration of find_duplicate.                           *)

Threads == { 1, 2 }

\* a thread between calls
IdleThread ==
    [ pc |-> "idle",            \* idle, dead (its call raised), or the statement it runs next
      op |-> "none",
      query |-> NoQuery,
      result |-> "none",
      query_hash |-> <<"md5", <<>>>>,
      oldest_key |-> <<"md5", <<>>>>,
      entry |-> <<>>,           \* <<entry>> once read
      stat |-> "none",          \* the key of the stats[...] += in progress
      reg |-> 0,                \* the value it read
      size |-> 0,               \* the size of the dict when the iterator was made
      i |-> 0,                  \* the items the iterator has yielded
      ret |-> <<>>,             \* what the last call returned: <<>> for None, <<result>>
      raised |-> "nothing",     \* the exception that ended the thread
      calls |-> 0,              \* history: calls started
      gets |-> 0,               \* history: get calls returned
      saved |-> 0 ]             \* history: sum of execution_time over its get calls that hit

\* the execution_time of every put of a thread
PutCost == 1

RECURSIVE SumOver(_, _)
SumOver(f, S) ==
    IF S = {}
    THEN 0
    ELSE LET t == CHOOSE x \in S : TRUE
         IN  f[t] + SumOver(f, S \ {t})

CallsStarted == SumOver([t \in Threads |-> threads[t].calls], Threads)

\* the history variables of the cache after a statement of a thread
CacheHistory ==
    /\ last' = [op |-> "thread", query |-> NoQuery, ret |-> None]
    /\ lastPut' = [k \in Keys(cache') |->
                      IF k \in DOMAIN lastPut
                      THEN lastPut[k]
                      ELSE [query |-> NoQuery, result |-> None, execution_time |-> 0,
                            t1 |-> now, t2 |-> now]]
    /\ run' = -1

Raise(t, exc) == threads' = [threads EXCEPT ![t].pc = "dead", ![t].raised = exc]

\* a thread calls cache.put(query, result, execution_time) or cache.get(query)
CacheCall(t, op, query, result) ==
    /\ threads[t].pc = "idle"
    /\ CallsStarted < MaxCalls
    /\ threads' = [threads EXCEPT ![t].pc = IF op = "put" THEN "put_check" ELSE "get_contains",
                                  ![t].op = op,
                                  ![t].query = query,
                                  ![t].result = result,
                                  ![t].query_hash = get_hash(query),
                                  ![t].entry = <<>>,
                                  ![t].ret = <<>>,
                                  ![t].calls = @ + 1]
    /\ UNCHANGED <<cacheVars, dedupVars, simVars, decVars, graphVars, driverVars>>

\* if len(self.cache) >= self.max_size
PutCheck(t) ==
    /\ threads[t].pc = "put_check"
    /\ threads' = [threads EXCEPT ![t].pc = IF AtCapacity(cache, max_size)
                                            THEN "put_min" ELSE "put_insert"]
    /\ UNCHANGED <<cacheVars, dedupVars, simVars, decVars, graphVars, driverVars>>

\* oldest_key = min(self.cache.keys(), key=...): ValueError on an empty dict
PutMin(t) ==
    /\ threads[t].pc = "put_min"
    /\ IF cache = <<>>
       THEN Raise(t, "ValueError")
       ELSE threads' = [threads EXCEPT ![t].pc = "put_del", ![t].oldest_key = OldestKey(cache)]
    /\ UNCHANGED <<cacheVars, dedupVars, simVars, decVars, graphVars, driverVars>>

\* del self.cache[oldest_key]: KeyError when the key is gone
PutDel(t) ==
    /\ threads[t].pc = "put_del"
    /\ IF threads[t].oldest_key \notin Keys(cache)
       THEN /\ Raise(t, "KeyError")
            /\ UNCHANGED cacheVars
       ELSE /\ cache' = DelKey(cache, threads[t].oldest_key)
            /\ threads' = [threads EXCEPT ![t].pc = "put_insert"]
            /\ CacheHistory
            /\ UNCHANGED <<stats, max_size, ttl, now>>
    /\ UNCHANGED <<dedupVars, simVars, decVars, graphVars, driverVars>>

\* self.cache[query_hash] = {...}
PutInsert(t) ==
    /\ threads[t].pc = "put_insert"
    /\ cache' = SetKey(cache, threads[t].query_hash,
                       [ key |-> threads[t].query_hash,
                         query |-> threads[t].query,
                         result |-> threads[t].result,
                         execution_time |-> PutCost,
                         timestamp |-> now,
                         expires |-> ExpiresAt(now, ttl) ])
    /\ threads' = [threads EXCEPT ![t].pc = "idle"]
    /\ CacheHistory
    /\ UNCHANGED <<stats, max_size, ttl, now>>
    /\ UNCHANGED <<dedupVars, simVars, decVars, graphVars, driverVars>>

\* if query_hash not in self.cache
GetContains(t) ==
    /\ threads[t].pc = "get_contains"
    /\ threads' = IF threads[t].query_hash \notin Keys(cache)
                  THEN [threads EXCEPT ![t].pc = "stat_load", ![t].stat = "misses"]
                  ELSE [threads EXCEPT ![t].pc = "get_read"]
    /\ UNCHANGED <<cacheVars, dedupVars, simVars, decVars, graphVars, driverVars>>

\* entry = self.cache[query_hash]: KeyError when the key is gone
GetRead(t) ==
    /\ threads[t].pc = "get_read"
    /\ IF threads[t].query_hash \notin Keys(cache)
       THEN Raise(t, "KeyError")
       ELSE threads' = [threads EXCEPT ![t].pc = "get_expiry",
                                       ![t].entry = <<Lookup(cache, threads[t].query_hash)>>]
    /\ UNCHANGED <<cacheVars, dedupVars, simVars, decVars, graphVars, driverVars>>

\* if datetime.now() > entry["expires"]
GetExpiry(t) ==
    /\ threads[t].pc = "get_expiry"
    /\ threads' = IF Expired(threads[t].entry[1], now)
                  THEN [threads EXCEPT ![t].pc = "get_del"]
                  ELSE [threads EXCEPT ![t].pc = "stat_load", ![t].stat = "hits"]
    /\ UNCHANGED <<cacheVars, dedupVars, simVars, decVars, graphVars, driverVars>>

\* del self.cache[query_hash]: KeyError when the key is gone
GetDel(t) ==
    /\ threads[t].pc = "get_del"
    /\ IF threads[t].query_hash \notin Keys(cache)
       THEN /\ Raise(t, "KeyError")
            /\ UNCHANGED cacheVars
       ELSE /\ cache' = DelKey(cache, threads[t].query_hash)
            /\ threads' = [threads EXCEPT ![t].pc = "stat_load", ![t].stat = "misses"]
            /\ CacheHistory
            /\ UNCHANGED <<stats, max_size, ttl, now>>
    /\ UNCHANGED <<dedupVars, simVars, decVars, graphVars, driverVars>>

\* self.stats[stat] += ...: the read
StatLoad(t) ==
    /\ threads[t].pc = "stat_load"
    /\ threads' = [threads EXCEPT ![t].pc = "stat_store", ![t].reg = stats[threads[t].stat]]
    /\ UNCHANGED <<cacheVars, dedupVars, simVars, decVars, graphVars, driverVars>>

\* self.stats[stat] += ...: the write, and what follows it in get
StatStore(t) ==
    /\ threads[t].pc = "stat_store"
    /\ LET me == threads[t]
           amount == IF me.stat = "total_saved_time" THEN me.entry[1].execution_time ELSE 1
       IN  /\ stats' = [stats EXCEPT ![me.stat] = me.reg + amount]
           /\ threads' =
                  IF me.stat = "hits"
                  THEN [threads EXCEPT ![t].pc = "stat_load", ![t].stat = "total_saved_time"]
                  ELSE IF me.stat = "total_saved_time"
                       THEN [threads EXCEPT ![t].pc = "idle", ![t].ret = <<me.entry[1].result>>,
                                            ![t].gets = @ + 1,
                                            ![t].saved = @ + me.entry[1].execution_time]
                       ELSE [threads EXCEPT ![t].pc = "idle", ![t].ret = <<>>,
                                            ![t].gets = @ + 1]
    /\ last' = [op |-> "thread", query |-> NoQuery, ret |-> None]
    /\ UNCHANGED <<cache, max_size, ttl, now, lastPut, run>>
    /\ UNCHANGED <<dedupVars, simVars, decVars, graphVars, driverVars>>

\* a thread calls dedup.find_duplicate(query) or dedup.register(query, result)
DedupCall(t, op, query, result) ==
    /\ threads[t].pc = "idle"
    /\ CallsStarted < MaxCalls
    /\ threads' = [threads EXCEPT ![t].pc = IF op = "register" THEN "register_store" ELSE "find_iter",
                                  ![t].op = op,
                                  ![t].query = query,
                                  ![t].result = result,
                                  ![t].ret = <<>>,
                                  ![t].calls = @ + 1]
    /\ UNCHANGED <<cacheVars, dedupVars, simVars, decVars, graphVars, driverVars>>

\* self.processed_queries[query] = result
RegisterStore(t) ==
    /\ threads[t].pc = "register_store"
    /\ processed_queries' = SetKey(processed_queries, threads[t].query,
                                   [key |-> threads[t].query, result |-> threads[t].result])
    /\ registered' = Append(registered, <<threads[t].query, threads[t].result>>)
    /\ dlast' = [op |-> "register", query |-> threads[t].query, ret |-> None]
    /\ threads' = [threads EXCEPT ![t].pc = "idle"]
    /\ UNCHANGED threshold
    /\ UNCHANGED <<cacheVars, simVars, decVars, graphVars, driverVars>>

\* for prev_query, result in self.processed_queries.items(): the iterator is made
FindIter(t) ==
    /\ threads[t].pc = "find_iter"
    /\ threads' = [threads EXCEPT ![t].pc = "find_next",
                                  ![t].size = Len(processed_queries),
                                  ![t].i = 0]
    /\ UNCHANGED <<cacheVars, dedupVars, simVars, decVars, graphVars, driverVars>>

\* the next item of the iterator and the body of the loop on it: RuntimeError
\* (dictionary changed size during iteration) when the dict grew meanwhile
FindNext(t) ==
    /\ threads[t].pc = "find_next"
    /\ LET me == threads[t]
       IN  IF Len(processed_queries) # me.size
           THEN Raise(t, "RuntimeError")
           ELSE IF me.i >= Len(processed_queries)
                THEN threads' = [threads EXCEPT ![t].pc = "idle", ![t].ret = <<>>]
                ELSE LET item == processed_queries[me.i + 1]
                     IN  IF IsDuplicate(similarity(me.query, item.key), threshold)
                         THEN threads' = [threads EXCEPT ![t].pc = "idle",
                                                         ![t].ret = <<item.result>>]
                         ELSE threads' = [threads EXCEPT ![t].i = @ + 1]
    /\ UNCHANGED <<cacheVars, dedupVars, simVars, decVars, graphVars, driverVars>>

\* the requests the threads make
ThreadQueries == { <<"a">>, <<"b">>, <<"c">> }

-----------------------------------------------------------------------------
(* Initial states and specifications *)

InitCache ==
    /\ cache = <<>>
    /\ stats = [hits |-> 0, misses |-> 0, total_saved_time |-> 0]
    /\ max_size \in CacheSizes
    /\ ttl \in Ttls
    /\ now = 0
    /\ last = [op |-> "init", query |-> NoQuery, ret |-> None]
    /\ lastPut = Restrict(<<>>, {})
    /\ run = 0

InitDedup ==
    /\ processed_queries = <<>>
    /\ threshold \in Thresholds
    /\ registered = <<>>
    /\ dlast = [op |-> "init", query |-> NoQuery, ret |-> None]

InitSim ==
    /\ q1in \in StringsUpTo(MaxStrLen)
    /\ q2in \in StringsUpTo(MaxStrLen)
    /\ simOut = [done |-> FALSE]

\* the components a specification leaves alone, as built
IdleCache ==
    /\ InitCache
    /\ max_size = 1

IdleDedup ==
    /\ InitDedup
    /\ threshold = Float(4, 5)

IdleSim ==
    /\ q1in = <<>>
    /\ q2in = <<>>
    /\ simOut = [done |-> FALSE]

\* no driver loop
IdleDriver == drv = [pc |-> "none", queue |-> <<>>, query |-> NoQuery, started |-> 0,
                     session |-> NewSession, done |-> <<>>, ops |-> <<>>]

\* no thread
IdleThreads == threads = <<>>

\* the threads before their first call, on a cache of one entry
InitCacheThreads ==
    /\ InitCache
    /\ max_size = 1
    /\ threads = [t \in Threads |-> IdleThread]

InitDedupThreads ==
    /\ InitDedup
    /\ threads = [t \in Threads |-> IdleThread]

NextCacheThreads ==
    \/ \E t \in Threads, op \in {"put", "get"}, query \in ThreadQueries :
           CacheCall(t, op, query, "r1")
    \/ \E t \in Threads : PutCheck(t)
    \/ \E t \in Threads : PutMin(t)
    \/ \E t \in Threads : PutDel(t)
    \/ \E t \in Threads : PutInsert(t)
    \/ \E t \in Threads : GetContains(t)
    \/ \E t \in Threads : GetRead(t)
    \/ \E t \in Threads : GetExpiry(t)
    \/ \E t \in Threads : GetDel(t)
    \/ \E t \in Threads : StatLoad(t)
    \/ \E t \in Threads : StatStore(t)
    \/ Tick

NextDedupThreads ==
    \/ \E t \in Threads, op \in {"register", "find_duplicate"}, query \in Queries,
          result \in Results : DedupCall(t, op, query, result)
    \/ \E t \in Threads : RegisterStore(t)
    \/ \E t \in Threads : FindIter(t)
    \/ \E t \in Threads : FindNext(t)

\* test_queries
RequestLists ==
    { << <<"a", "b">>, <<"a", "b">> >>,
      << <<"a", "b">>, <<"A", "b", " ">> >>,
      << <<"a", "b">>, <<"c", "c">> >>,
      << <<"a", "a", "a", "a", "b">>, <<"a", "a", "a", "a", "a">>, <<"a", "a", "a", "a", "a">> >> }

\* test_caching before its loop: the global cache and deduplicator (as built, with
\* room for every query of the list), a new session, and some notes file
InitDriver ==
    /\ InitCache
    /\ max_size = 2
    /\ InitDedup
    /\ threshold = Float(4, 5)
    /\ drv \in { [pc |-> "idle", queue |-> l, query |-> NoQuery, started |-> 0,
                  session |-> NewSession, done |-> <<>>, ops |-> <<>>] : l \in RequestLists }
    /\ user_query = NoQuery
    /\ session_memory = NewSession
    /\ classification = <<>>
    /\ react_chain = <<>>
    /\ agent_outputs = <<>>
    /\ final_answer = <<>>
    /\ execution_log = <<>>
    /\ errors = <<>>
    /\ retrieved_context = <<>>
    /\ node = NoRun
    /\ notes \in { <<>>, << <<"}">> >> }
    /\ executed = <<>>
    /\ decoderRaised = {}
    /\ dec = IdleDecoder

NextDriver ==
    \/ DriverQuery
    \/ DriverReturned
    \/ DriverRaised
    \/ DriverTick
    \/ RouterEnter
    \/ MemoryRetriever
    \/ \E n \in Specialists : SpecialistEnter(n)
    \/ \E text \in BackendTexts(dec.schema) : GenerationReturns(text)
    \/ GenerationFails
    \/ \E text \in BackendTexts(dec.schema) : CorrectionReturns(text)
    \/ CorrectionFails
    \/ Synthesizer

NextMain ==
    \/ MainQuery
    \/ MainReturned
    \/ MainRaised
    \/ RouterEnter
    \/ MemoryRetriever
    \/ \E n \in Specialists : SpecialistEnter(n)
    \/ \E text \in BackendTexts(dec.schema) : GenerationReturns(text)
    \/ GenerationFails
    \/ \E text \in BackendTexts(dec.schema) : CorrectionReturns(text)
    \/ CorrectionFails
    \/ Synthesizer

NextCache ==
    \/ \E query \in Queries, p \in Payloads, skew \in 0..MaxSkew : Put(query, p[1], p[2], skew)
    \/ \E query \in Queries : Get(query)
    \/ Clear
    \/ Tick

NextDedup ==
    \/ \E query \in Queries, result \in Results : Register(query, result)
    \/ \E query \in Queries : FindDuplicate(query)

NextSim == Similarities

CacheAlone == InitCache /\ IdleDedup /\ IdleSim /\ IdleGraph /\ IdleDriver /\ IdleThreads

DedupAlone == InitDedup /\ IdleCache /\ IdleSim /\ IdleGraph /\ IdleDriver /\ IdleThreads

SimAlone == InitSim /\ IdleCache /\ IdleDedup /\ IdleGraph /\ IdleDriver /\ IdleThreads

GraphAlone == InitGraph /\ IdleCache /\ IdleDedup /\ IdleSim /\ IdleDriver /\ IdleThreads

SpecCache == CacheAlone /\ [][NextCache]_vars

SpecDedup == DedupAlone /\ [][NextDedup]_vars

SpecSim == SimAlone /\ [][NextSim]_vars

DecoderAlone == InitDecoder /\ IdleCache /\ IdleDedup /\ IdleSim /\ IdleDriver /\ IdleThreads

SpecGraph == GraphAlone /\ [][NextGraph]_vars

SpecDecoder == DecoderAlone /\ [][NextDecoder]_vars

DriverAlone == InitDriver /\ IdleSim /\ IdleThreads

CacheThreadsAlone == InitCacheThreads /\ IdleDedup /\ IdleSim /\ IdleGraph /\ IdleDriver

DedupThreadsAlone == InitDedupThreads /\ IdleCache /\ IdleSim /\ IdleGraph /\ IdleDriver

SpecCacheThreads == CacheThreadsAlone /\ [][NextCacheThreads]_vars

SpecDedupThreads == DedupThreadsAlone /\ [][NextDedupThreads]_vars

SpecDriver == DriverAlone /\ [][NextDriver]_vars

\* a cache built with max_size = 3, before its first call
CacheOfThreeAlone ==
    /\ cache = <<>>
    /\ stats = [hits |-> 0, misses |-> 0, total_saved_time |-> 0]
    /\ max_size = 3
    /\ ttl \in Ttls
    /\ now = 0
    /\ last = [op |-> "init", query |-> NoQuery, ret |-> None]
    /\ lastPut = Restrict(<<>>, {})
    /\ run = 0
    /\ IdleDedup
    /\ IdleSim
    /\ IdleGraph
    /\ IdleDriver
    /\ IdleThreads

SpecCacheOfThree == CacheOfThreeAlone /\ [][NextCache]_vars

\* main before its loop, with some notes file
MainAlone ==
    /\ drv = [pc |-> "idle", queue |-> TEST_QUERIES, query |-> NoQuery, started |-> 0,
              session |-> NewSession, done |-> <<>>, ops |-> <<>>]
    /\ user_query = NoQuery
    /\ session_memory = NewSession
    /\ classification = <<>>
    /\ react_chain = <<>>
    /\ agent_outputs = <<>>
    /\ final_answer = <<>>
    /\ execution_log = <<>>
    /\ errors = <<>>
    /\ retrieved_context = <<>>
    /\ node = NoRun
    /\ notes \in { <<>>, << <<"}">> >> }
    /\ executed = <<>>
    /\ decoderRaised = {}
    /\ dec = IdleDecoder
    /\ IdleCache
    /\ IdleDedup
    /\ IdleSim
    /\ IdleThreads

SpecMain == MainAlone /\ [][NextMain]_vars

\* a run goes on while it can: the interpreter takes the next step of a node, and
\* every backend call eventually returns or fails
FairGraph == GraphAlone /\ [][NextGraph]_vars /\ WF_vars(NextGraph)

\* the schema of the record stored under each key of agent_outputs
SchemaOf ==
    [ theory |-> "TheoryExplanation", design |-> "DesignAdvice",
      code |-> "CodeSolution", planning |-> "PlanOutput" ]

\* every agent_outputs over a subset of the four keys, each key with a record of
\* its schema
AgentOutputs ==
    UNION { { f \in [S -> UNION { ValidRecords(SchemaOf[k]) : k \in S }] :
                \A k \in S : f[k] \in ValidRecords(SchemaOf[k]) } :
            S \in SUBSET { "theory", "design", "code", "planning" } }

NextSynthesizer == Synthesizer

\* the state handed to synthesizer_node by a caller that filled agent_outputs
\* itself, as test_synthesizer_logic does
SynthesizerAlone ==
    /\ user_query = <<"query">>
    /\ session_memory = NewSession
    /\ classification \in {<<>>} \cup { <<r>> : r \in ValidRecords("QueryClassification") }
    /\ react_chain = <<>>
    /\ agent_outputs \in AgentOutputs
    /\ final_answer = <<>>
    /\ execution_log = <<>>
    /\ errors = <<>>
    /\ retrieved_context = <<>>
    /\ node = "synthesizer"
    /\ notes = <<>>
    /\ executed = <<>>
    /\ decoderRaised = {}
    /\ dec = IdleDecoder
    /\ IdleCache
    /\ IdleDedup
    /\ IdleSim
    /\ IdleDriver
    /\ IdleThreads

SpecSynthesizer == SynthesizerAlone /\ [][NextSynthesizer]_vars

-----------------------------------------------------------------------------
(* Properties of QueryCache *)

\* the step is a get of query that has just returned
GetReturned(query) ==
    /\ last'.op = "get"
    /\ last'.query = query
    /\ stats' # stats

\* the two requests have the same fingerprint
SameRequest(qa, qb) == strip(lower(qa)) = strip(lower(qb))

\* C1, as stated: an entry put at time T (the clock reading its expiry is computed
\* from) with TTL = D is returned by every get at a time in [T, T+D) and reported
\* absent by every get at time T+D or later, while it is stored.
C1_TtlHalfOpen ==
    [][\A query \in Queries :
          (GetReturned(query) /\ get_hash(query) \in Keys(cache)) =>
              LET put == lastPut[get_hash(query)]
              IN  /\ (now < put.t2 + ttl) => (last'.ret = put.result)
                  /\ (now >= put.t2 + ttl) => (last'.ret = None)]_vars

\* C1, amended: an entry put at time T (the clock reading its expiry is computed
\* from) with TTL = D is returned by every get at a time in [T, T+D], T+D included,
\* and reported absent by every get at a time later than T+D, while it is stored.
C1_TtlClosed ==
    [][\A query \in Queries :
          (GetReturned(query) /\ get_hash(query) \in Keys(cache)) =>
              LET put == lastPut[get_hash(query)]
              IN  /\ (now <= put.t2 + ttl) => (last'.ret = put.result)
                  /\ (now > put.t2 + ttl) => (last'.ret = None)]_vars

\* a get at exactly T+D has just returned the stored result
C1_Witness ==
    /\ last.op = "get"
    /\ get_hash(last.query) \in Keys(cache)
    /\ now = lastPut[get_hash(last.query)].t2 + ttl
    /\ last.ret = lastPut[get_hash(last.query)].result

\* C2: starting from an empty cache, the put that completes max_size + 1 puts of
\* pairwise distinct fingerprints leaves exactly max_size entries, and the entry it
\* removes has the smallest timestamp (createdAt) of the entries present before it.
C2_Capacity ==
    [][(run = max_size /\ run' = max_size + 1) =>
          /\ Len(cache') = max_size
          /\ \E i \in 1..Len(cache) :
                /\ \A j \in 1..Len(cache) : cache[i].timestamp <= cache[j].timestamp
                /\ Keys(cache') = (Keys(cache) \ {cache[i].key}) \cup {get_hash(last'.query)}
                /\ get_hash(last'.query) \notin Keys(cache)]_vars

\* the (max_size + 1)-th put of a new fingerprint has just returned, into a cache of two
C2_Witness ==
    /\ last.op = "put"
    /\ run = max_size + 1
    /\ max_size = 2
    /\ Len(cache) = 2
    /\ cache[1].timestamp < cache[2].timestamp

\* C3: a get of q' whose fingerprint equals that of the q of the latest put(q, r, t)
\* under that fingerprint, the entry being stored and not expired, returns r,
\* increments hits by exactly 1, adds exactly t to total_saved_time and leaves misses
\* unchanged.
C3_Identity ==
    [][\A query \in Queries, k \in Keys(cache) :
          (/\ GetReturned(query)
           /\ SameRequest(lastPut[k].query, query)
           /\ now <= lastPut[k].t2 + ttl) =>
              /\ last'.ret = lastPut[k].result
              /\ stats'.hits = stats.hits + 1
              /\ stats'.total_saved_time = stats.total_saved_time + lastPut[k].execution_time
              /\ stats'.misses = stats.misses]_vars

\* a get of a request that differs from the put one in case and whitespace has just hit
C3_Witness ==
    /\ last.op = "get"
    /\ last.ret = "r2"
    /\ get_hash(last.query) \in Keys(cache)
    /\ lastPut[get_hash(last.query)].query # last.query
    /\ stats = [hits |-> 1, misses |-> 0, total_saved_time |-> 2]

\* C4: after any sequence of get, put and clear on a cache built with max_size >= 1,
\* the number of stored entries never exceeds max_size.
C4_SizeBounded == max_size >= 1 => Len(cache) <= max_size

\* a put into a full cache has just returned, after a get and outside a run of new keys
C4_Witness ==
    /\ last.op = "put"
    /\ run = -1
    /\ stats.hits + stats.misses > 0
    /\ Len(cache) = max_size

-----------------------------------------------------------------------------
(* Properties of RequestDeduplicator *)

\* similarity of the two requests reaches the threshold
Reaches(query, text) ==
    LET x == similarity(query, text)
    IN  x.num * threshold.den >= threshold.num * x.den

\* the register calls, by place in the history, whose request reaches the threshold
SimilarCalls(query) == { i \in 1..Len(registered) : Reaches(query, registered[i][1]) }

Least(S) == CHOOSE i \in S : \A j \in S : i <= j

Greatest(S) == CHOOSE i \in S : \A j \in S : i >= j

\* the result passed to the earliest register call whose request reaches the threshold
EarliestCallResult(query) ==
    IF SimilarCalls(query) = {}
    THEN None
    ELSE registered[Least(SimilarCalls(query))][2]

\* the result passed to the latest register call with the text of the earliest
\* register call whose request reaches the threshold
EarliestTextLatestResult(query) ==
    IF SimilarCalls(query) = {}
    THEN None
    ELSE LET text == registered[Least(SimilarCalls(query))][1]
         IN  registered[Greatest({ i \in 1..Len(registered) : registered[i][1] = text })][2]

\* C5, as stated: find_duplicate(q) returns the result passed to the earliest
\* register call whose request has similarity to q >= threshold, and None when no
\* registered request reaches the threshold.
C5_EarliestCall ==
    dlast.op = "find_duplicate" => dlast.ret = EarliestCallResult(dlast.query)

\* C5, amended: find_duplicate(q) returns the result held for the earliest registered
\* request text whose similarity to q is >= threshold (equality matches), which is the
\* result passed to the latest register call with that text, and None when no
\* registered request reaches the threshold.
C5_FirstMatch ==
    dlast.op = "find_duplicate" => dlast.ret = EarliestTextLatestResult(dlast.query)

\* find_duplicate has just returned the first of two differing results whose requests
\* both reach the threshold, the first with similarity exactly equal to the threshold
C5_Witness ==
    /\ dlast.op = "find_duplicate"
    /\ Len(registered) = 2
    /\ registered[1][1] # registered[2][1]
    /\ registered[1][2] # registered[2][2]
    /\ Reaches(dlast.query, registered[1][1])
    /\ Reaches(dlast.query, registered[2][1])
    /\ FloatEq(similarity(dlast.query, registered[1][1]), threshold)
    /\ dlast.ret = registered[1][2]

\* C6: similarity(a, b) equals similarity(b, a), for strings of equal and of
\* different lengths.
C6_Symmetry == simOut.done => FloatEq(simOut.ab, simOut.ba)

\* similarity of two strings of different lengths, strictly between 0 and 1
C6_Witness ==
    /\ simOut.done
    /\ Len(strip(lower(q1in))) < Len(strip(lower(q2in)))
    /\ simOut.ab.num > 0
    /\ simOut.ab.num < simOut.ab.den
    /\ simOut.ba = simOut.ab

\* C7: similarity(a, a) is exactly 1.0 for every string a, the empty string and
\* whitespace-only strings included, and no pair of strings makes similarity divide by
\* zero.
C7_Identity ==
    simOut.done =>
        /\ simOut.aa = One
        /\ simOut.bb = One
        /\ simOut.ab.raised = "nothing"
        /\ simOut.ba.raised = "nothing"

\* similarity of the empty string and of a whitespace-only string, each with itself
C7_Witness ==
    /\ simOut.done
    /\ q1in = <<>>
    /\ q2in = <<" ", " ">>
    /\ simOut.aa = One
    /\ simOut.bb = One

-----------------------------------------------------------------------------
(* Claims about the graph *)

Categories == { "theory", "design", "code", "planning" }

Count(seq, x) == Cardinality({ i \in 1..Len(seq) : seq[i] = x })

Classified == classification # <<>> /\ classification[1].query_type \in Categories

\* C8: Routing completeness. In a finished run whose query was classified into
\* one of the four categories theory, design, code, planning, the nodes executed
\* are router, the matching specialist, synthesizer, in this order.
C8_RouterThenSpecialist ==
    (node = END /\ Classified)
        => executed = <<"router", route_to_agents(classification), "synthesizer">>

RouterFailed == "router" \in decoderRaised

\* C9: Degraded-run completeness. Once the decoder call of the router has
\* raised, the classification stays absent, errors holds at least one entry, no
\* specialist executes, the run goes on to synthesizer and ends after it with a
\* final answer whose text is not empty.
C9_DegradedRun ==
    /\ [](RouterFailed =>
            /\ node \in {"synthesizer", END}
            /\ \A i \in 1..Len(executed) : executed[i] \notin Specialists
            /\ classification = <<>>
            /\ Len(errors) >= 1
            /\ node = END =>
                   /\ executed = <<"router", "synthesizer">>
                   /\ final_answer # <<>>
                   /\ final_answer[1].final_answer # <<>>)
    /\ (RouterFailed ~> (node = END /\ Count(executed, "synthesizer") = 1))

C9_Witness ==
    /\ RouterFailed
    /\ node = END
    /\ final_answer # <<>>
    /\ errors # <<>>

RunReturned ==
    /\ node = END
    /\ Count(executed, "synthesizer") = 1
    /\ executed[Len(executed)] = "synthesizer"
    /\ final_answer # <<>>

\* C10: Every workflow run terminates. Provided each backend call eventually
\* returns or fails, the run reaches synthesizer exactly once, as its last node,
\* and returns a state whose final answer is set.
C10_Terminates ==
    /\ <>RunReturned
    /\ [](Count(executed, "synthesizer") <= 1)

\* C11: An exception raised anywhere inside the body of a graph node is caught
\* at that node and converted into an entry in errors: no run ends by raising
\* out of the graph, and a run in which a node failed holds an entry in errors.
C11_NeverPropagates == node # RAISED

\* part occurs in text as a run of consecutive tokens
Contains(text, part) ==
    \E i \in 1..(Len(text) + 1) :
        /\ i + Len(part) - 1 <= Len(text)
        /\ SubSeq(text, i, i + Len(part) - 1) = part

TheoryRun ==
    /\ classification # <<>>
    /\ classification[1].query_type = "theory"
    /\ errors = <<>>

\* C16: End-to-end theory run. In a run without failures whose classification
\* is theory, once the run has returned agent_outputs holds the theory
\* explainer's record under "theory" and the text of the final answer contains
\* that record's explanation; the session's conversation history is left alone
\* by every node but synthesizer, which appends exactly one turn, whose
\* agents_used is ["theory"].
C16_TheoryRun ==
    /\ []((TheoryRun /\ node = END) =>
            /\ DOMAIN agent_outputs = {"theory"}
            /\ agent_outputs["theory"] \in ValidRecords("TheoryExplanation")
            /\ final_answer # <<>>
            /\ Contains(final_answer[1].final_answer, agent_outputs["theory"].explanation))
    /\ [][TheoryRun =>
            session_memory'.conversation_history =
                IF node = "synthesizer" /\ node' = END
                THEN Append(session_memory.conversation_history,
                            [ query |-> user_query,
                              response |-> final_answer'[1].final_answer,
                              agents_used |-> <<"theory">> ])
                ELSE session_memory.conversation_history]_vars

C16_Witness ==
    /\ TheoryRun
    /\ node = END
    /\ "theory" \in DOMAIN agent_outputs
    /\ agent_outputs["theory"].explanation # <<>>
    /\ agent_outputs["theory"].examples # <<>>
    /\ session_memory.conversation_history[Len(session_memory.conversation_history)].agents_used
           = <<"theory">>

-----------------------------------------------------------------------------
(* Claims about the parser *)

\* the outcomes of the backend calls of the call in progress, and the raw text
Outcomes(d) == { d.trace[i][2] : i \in 1..Len(d.trace) }

\* the number of entries of the trace equal to e
Occurrences(d, e) == Cardinality({ i \in 1..Len(d.trace) : d.trace[i] = e })

\* C12: Decoder retry bound for decode. When the raw text and every corrected
\* text the backend returns fail to decode into the schema, parse_with_retry
\* with max_retries = n >= 1 makes exactly n decode attempts, issues exactly
\* n - 1 corrective calls and then raises ValueError.
C12_DecodeBound ==
    ( /\ dec.entry = "decode"
      /\ Finished(dec)
      /\ dec.max_retries >= 1
      /\ "valid" \notin Outcomes(dec) )
        => /\ dec.phase = "raised"
           /\ dec.raised = "ValueError"
           /\ dec.decodes = dec.max_retries
           /\ dec.corrections = dec.max_retries - 1

\* C13: Decoder retry bound for generate. With a backend whose every call
\* returns text that is no JSON of the schema, one invoke_with_retry call with
\* max_retries = n >= 1 raises after exactly n decode attempts in total, with
\* exactly n - 1 corrective calls over the whole invocation.
C13_GenerateBound ==
    ( /\ dec.entry = "generate"
      /\ Finished(dec)
      /\ dec.max_retries >= 1
      /\ ~dec.missing
      /\ Outcomes(dec) = {"invalid"} )
        => /\ dec.phase = "raised"
           /\ dec.raised = "ValueError"
           /\ dec.decodes = dec.max_retries
           /\ dec.corrections = dec.max_retries - 1

\* the failed attempts of the call in progress: backend calls of invoke_with_retry
\* that raised, and decode attempts that did not yield a record
FailedAttempts(d) ==
    Occurrences(d, <<"generation", "failed">>)
        + (d.decodes - (IF d.phase = "returned" /\ d.result # <<>> THEN 1 ELSE 0))

\* C14: Shared budget. Within one invoke_with_retry call, for any mix of failing
\* backend calls and undecodable texts, the failed attempts of both kinds
\* together never exceed max_retries, and neither do the backend interactions
\* (generation calls plus corrective calls).
C14_SharedBudget ==
    dec.entry = "generate"
        => /\ FailedAttempts(dec) <= dec.max_retries
           /\ dec.generations + dec.corrections <= dec.max_retries

-----------------------------------------------------------------------------
(* Claims about the driver *)

\* the first two queries of the list are one request, and the second was issued
\* no later than ttl after the first
SameRequestTwice ==
    /\ Len(drv.done) >= 2
    /\ drv.done[1].query = drv.done[2].query
    /\ drv.done[2].at <= drv.done[1].at + ttl

\* C15: End-to-end cache hit. When the same request is issued twice through the
\* driver within the TTL window, starting from an empty cache and deduplicator,
\* the second call returns the result stored by the first without invoking the
\* graph, and the hit counter is exactly 1 afterwards.
C15_CacheHit ==
    (SameRequestTwice /\ Len(drv.done) = 2)
        => /\ drv.done[2].source = "cache"
           /\ drv.done[1].result # <<>>
           /\ drv.done[2].result = drv.done[1].result
           /\ stats.hits = 1

-----------------------------------------------------------------------------
(* Claims about threads on the shared cache and deduplicator *)

OnlyPuts == \A t \in Threads : threads[t].op \in {"none", "put"}

\* C17: Concurrent puts. While the only calls the threads make are puts,
\* interleaved at the capacity check, the eviction and the insertion, the cache
\* never holds more than max_size entries and no put raises.
C17_ConcurrentPuts ==
    OnlyPuts => /\ Len(cache) <= max_size
                /\ \A t \in Threads : threads[t].raised = "nothing"

AllReturned == \A t \in Threads : threads[t].pc = "idle"

\* C18: No lost statistics update. Once every call of every thread has returned,
\* hits + misses equals the number of gets performed and total_saved_time equals
\* the sum of execution_time over the gets that hit.
C18_Statistics ==
    AllReturned
        => /\ stats.hits + stats.misses = SumOver([t \in Threads |-> threads[t].gets], Threads)
           /\ stats.total_saved_time = SumOver([t \in Threads |-> threads[t].saved], Threads)

\* C19: A get that runs concurrently with a put that evicts, or with another get
\* that removes the same expired entry, never raises.
C19_GetNeverFails ==
    \A t \in Threads : threads[t].op = "get" => threads[t].raised = "nothing"

\* C20: A find_duplicate scan that runs concurrently with register calls never
\* raises, and what it returns is None or the result of a registered request
\* that reaches the threshold.
C20_ConcurrentScan ==
    \A t \in Threads :
        threads[t].op = "find_duplicate"
            => /\ threads[t].raised = "nothing"
               /\ (threads[t].pc = "idle" /\ threads[t].ret # <<>>)
                      => \E i \in 1..Len(registered) :
                             /\ registered[i][2] = threads[t].ret[1]
                             /\ IsDuplicate(similarity(threads[t].query, registered[i][1]),
                                            threshold)

-----------------------------------------------------------------------------
(* Claims about the driver's control flow *)

\* the place of the call op in the calls made for the query in hand, 0 if not made
PlaceOf(op) ==
    IF \E i \in 1..Len(drv.ops) : drv.ops[i][1] = op
    THEN CHOOSE i \in 1..Len(drv.ops) : drv.ops[i][1] = op
    ELSE 0

\* what the driver stores for the run that has just returned
RunResult ==
    [ routing |-> IF classification # <<>> THEN classification[1].query_type ELSE "unknown",
      agents |-> OutputKeys(agent_outputs),
      errors |-> Len(errors) ]

\* C21: Driver control flow. For every request the first call is the cache get;
\* the deduplicator is consulted only after that get missed; the graph is
\* invoked only after the deduplicator found nothing; and the step that follows
\* a graph run that returned puts the request in the cache and registers it in
\* the deduplicator, both with the result of that run.
C21_ControlFlow ==
    /\ [](/\ drv.ops # <<>> => drv.ops[1][1] = "get"
          /\ PlaceOf("find_duplicate") # 0 =>
                 /\ PlaceOf("find_duplicate") = 2
                 /\ drv.ops[1] = <<"get", "miss">>
          /\ PlaceOf("invoke") # 0 =>
                 /\ PlaceOf("invoke") = 3
                 /\ drv.ops[2] = <<"find_duplicate", "none">>
          /\ drv.pc = "running" => PlaceOf("invoke") = Len(drv.ops))
    /\ [][(drv.pc = "running" /\ node = END /\ drv'.pc # "running") =>
            /\ get_hash(drv.query) \in Keys(cache')
            /\ Lookup(cache', get_hash(drv.query)).result = RunResult
            /\ Lookup(cache', get_hash(drv.query)).query = drv.query
            /\ drv.query \in Keys(processed_queries')
            /\ Lookup(processed_queries', drv.query).result = RunResult
            /\ registered' = Append(registered, <<drv.query, RunResult>>)]_vars
    /\ [][(drv.pc = "running" /\ node = END) => (drv'.pc # "running" \/ UNCHANGED <<cache, processed_queries, drv, node>>)]_vars

C21_Witness ==
    /\ Len(drv.done) = 2
    /\ drv.done[1].source = "graph"
    /\ drv.done[2].source = "graph"
    /\ Len(processed_queries) = 2
    /\ Len(cache) = 2

-----------------------------------------------------------------------------
(* Claims about the entries of the cache *)

\* the step is a get of query that returned
GetOf(query) ==
    /\ last'.op = "get"
    /\ last'.query = query
    /\ stats' # stats

\* C22: Lazy expiry. A get on a fingerprint whose entry is expired removes that
\* entry, adds exactly 1 to misses, returns absent and leaves hits, the total
\* saved time and every other entry as they were; and an entry leaves the cache
\* only in a get on its own fingerprint that finds it expired, in a put that
\* finds the cache at capacity, or in a clear: never because time has passed.
C22_LazyExpiry ==
    /\ [][\A query \in Queries :
            LET k == get_hash(query)
            IN  (GetOf(query) /\ k \in Keys(cache) /\ now > Lookup(cache, k).expires) =>
                    /\ k \notin Keys(cache')
                    /\ \A j \in Keys(cache) \ {k} :
                          j \in Keys(cache') /\ Lookup(cache', j) = Lookup(cache, j)
                    /\ Len(cache') = Len(cache) - 1
                    /\ stats'.misses = stats.misses + 1
                    /\ stats'.hits = stats.hits
                    /\ stats'.total_saved_time = stats.total_saved_time
                    /\ last'.ret = None]_vars
    /\ [][\A k \in Keys(cache) \ Keys(cache') :
            \/ /\ last'.op = "get"
               /\ get_hash(last'.query) = k
               /\ stats' # stats
               /\ now > Lookup(cache, k).expires
            \/ /\ last'.op = "put"
               /\ Len(cache) >= max_size
            \/ last'.op = "clear"]_vars

\* a get has just removed an expired entry and left another entry stored
C22_Witness ==
    /\ last.op = "get"
    /\ last.ret = None
    /\ stats.misses = 1
    /\ get_hash(last.query) \notin Keys(cache)
    /\ run = -1
    /\ Len(cache) = 1

-----------------------------------------------------------------------------
(* Claims about the records a run leaves *)

\* the failure marker of the node whose entries in errors start with name
FailureMarker ==
    [ Router |-> "FAILED: Router", Theory |-> "FAILED: Theory", Design |-> "FAILED: Design",
      Code |-> "FAILED: Code", Planner |-> "FAILED: Planner" ]

\* C23: Every node failure is both appended to errors and logged in
\* execution_log: once a run has returned, execution_log holds, for every entry
\* of errors, a failure marker naming the node that wrote the entry.
C23_FailureLogged ==
    node = END =>
        \A i \in 1..Len(errors) :
            \E j \in 1..Len(execution_log) : execution_log[j] = FailureMarker[errors[i][1]]

\* the specialist n ran for its own category and its invoke_with_retry call has
\* returned a record of its schema
SpecialistDecoded(n) ==
    /\ node \in {"synthesizer", END}
    /\ Count(executed, n) = 1
    /\ n \notin decoderRaised
    /\ Classified
    /\ classification[1].query_type = SpecialistOf[n].key

\* C24: For each category c, when the router has classified the request as c and
\* the decoder call of the specialist of c has returned a valid record, then
\* from the moment the synthesizer is due agent_outputs[c] holds a record of the
\* specialist's schema, react_chain holds exactly one step of that specialist,
\* and errors holds no entry written by it.
C24_ValidRecordStored ==
    \A n \in Specialists :
        SpecialistDecoded(n) =>
            LET me == SpecialistOf[n]
            IN  /\ me.key \in DOMAIN agent_outputs
                /\ agent_outputs[me.key] \in ValidRecords(me.schema)
                /\ Count(react_chain, me.action) = 1
                /\ \A i \in 1..Len(errors) : errors[i][1] # me.error

\* C25: When the classification is absent or its category is none of theory,
\* design, code and planning, the step that leaves the router goes to the
\* synthesizer, and the nodes executed in the run are the router and the
\* synthesizer only.
C25_UnclassifiedToSynthesizer ==
    /\ [](~Classified =>
            /\ \A i \in 1..Len(executed) : executed[i] \in {"router", "synthesizer"}
            /\ node = END => executed = <<"router", "synthesizer">>)
    /\ [][(node = "router" /\ node' # "router" /\ ~Classified') => node' = "synthesizer"]_vars

\* a run classified with a category outside the four has returned
C25_Witness ==
    /\ node = END
    /\ classification # <<>>
    /\ classification[1].query_type = "other"
    /\ executed = <<"router", "synthesizer">>

-----------------------------------------------------------------------------
(* Claims about synthesizer_node *)

Priority == <<"theory", "design", "code", "planning">>

\* the key of highest priority present in outputs
Chosen(outputs) ==
    Priority[CHOOSE i \in 1..Len(Priority) :
                 /\ Priority[i] \in DOMAIN outputs
                 /\ \A j \in 1..(i - 1) : Priority[j] \notin DOMAIN outputs]

\* the prose of the record stored under key k
Prose(k, record) ==
    IF k = "theory" THEN record.explanation
    ELSE IF k = "design" THEN record.architecture_recommendation
    ELSE IF k = "code" THEN record.code
    ELSE record.goal

\* the words of the other records, none of which the prose of a record holds
Words ==
    [ theory |-> {"EXPLANATION", "EXAMPLE"}, design |-> {"ARCHITECTURE", "PATTERN"},
      code |-> {"SOLUTION", "CODE"}, planning |-> {"GOAL", "TIMELINE", "DESCRIPTION"} ]

AnswerText == final_answer[1].final_answer

\* the synthesizer has run and some of the four keys is present: the answer is
\* the one built from the key of highest priority alone, holds its prose, and
\* holds no word of another record
BuiltFromChosen ==
    (node = END /\ DOMAIN agent_outputs # {}) =>
        LET k == Chosen(agent_outputs)
        IN  /\ AnswerText = final_answer_text((k :> agent_outputs[k]), classification)
            /\ Contains(AnswerText, Prose(k, agent_outputs[k]))
            /\ \A j \in DOMAIN agent_outputs \ {k} :
                   \A i \in 1..Len(AnswerText) : AnswerText[i] \notin Words[j]

StageNames ==
    { "router", "memory_retriever", "theory_explainer", "design_advisor", "code_helper",
      "planner", "synthesizer" }

\* C26, as stated: Synthesizer selection is deterministic with priority theory >
\* design > code > planning: for every subset of the four keys present in
\* agent_outputs the final answer is built from the key of highest priority
\* present and from no other, and when no key is present the final answer is
\* the fallback summary, which names the stages of the attempted path.
C26_FallbackNamesPath ==
    /\ BuiltFromChosen
    /\ (node = END /\ DOMAIN agent_outputs = {}) =>
           /\ AnswerText[1] = "Processed query through: "
           /\ \E i \in 1..Len(AnswerText) : AnswerText[i] \in StageNames

\* C26, amended: the same selection by priority; when no key is present the
\* final answer is the fallback summary, which gives the agent_path of the
\* classification when there is a classification, be that path empty, and the
\* word "unknown" in its place when the classification is absent.
C26_PriorityAndFallback ==
    /\ BuiltFromChosen
    /\ (node = END /\ DOMAIN agent_outputs = {}) =>
           AnswerText = <<"Processed query through: ">>
                            \o (IF classification # <<>>
                                THEN classification[1].agent_path
                                ELSE <<"unknown">>)
                            \o <<". Available outputs: ", "none">>

\* the synthesizer has answered from design although code and planning are present too
C26_Witness ==
    /\ node = END
    /\ DOMAIN agent_outputs = {"design", "code", "planning"}
    /\ Contains(AnswerText, <<"ARCHITECTURE">>)
    /\ executed = <<"synthesizer">>

-----------------------------------------------------------------------------
(* Claims about whole runs of the graph *)

\* C27: In every run started with empty agent_outputs, agent_outputs holds at
\* most one entry from the moment the synthesizer is due, and the key of that
\* entry is the category of the classification the router produced.
C27_OneOutput ==
    node \in {"synthesizer", END} =>
        /\ Cardinality(DOMAIN agent_outputs) <= 1
        /\ \A k \in DOMAIN agent_outputs :
               /\ classification # <<>>
               /\ k = classification[1].query_type

\* the synthesizer is due and the design advisor has stored its record
C27_Witness ==
    /\ node = "synthesizer"
    /\ DOMAIN agent_outputs = {"design"}
    /\ classification[1].query_type = "design"
    /\ executed = <<"router", "memory_retriever", "design_advisor">>

\* seq is old with exactly one entry appended
OneAppended(old, seq) ==
    /\ Len(seq) = Len(old) + 1
    /\ SubSeq(seq, 1, Len(old)) = old

\* C28: Every run that reaches the synthesizer appends exactly one entry to
\* conversation_history and exactly one request to previous_questions, the
\* entry of a degraded run having empty agents_used; no other node changes the
\* session memory; so over the runs a driver makes on one session memory the
\* two sequences stay of equal length, one entry per run that returned, and an
\* entry once appended is never changed or removed.
C28_OneTurnPerRun ==
    /\ [][(node = "synthesizer" /\ node' # "synthesizer") =>
            /\ node' = END
            /\ OneAppended(session_memory.conversation_history,
                           session_memory'.conversation_history)
            /\ OneAppended(session_memory.previous_questions,
                           session_memory'.previous_questions)
            /\ session_memory'.previous_questions[Len(session_memory'.previous_questions)]
                   = user_query
            /\ LET turn == session_memory'.conversation_history[
                               Len(session_memory'.conversation_history)]
               IN  /\ turn.query = user_query
                   /\ turn.response = final_answer'[1].final_answer
                   /\ RouterFailed => turn.agents_used = <<>>]_vars
    /\ [][(drv.pc = "running" /\ node # "synthesizer" /\ drv'.pc = "running") =>
            session_memory' = session_memory]_vars
    /\ [][drv'.session # drv.session =>
            /\ drv.pc = "running" /\ node = END
            /\ drv'.session = session_memory
            /\ OneAppended(drv.session.conversation_history, drv'.session.conversation_history)
            /\ OneAppended(drv.session.previous_questions, drv'.session.previous_questions)]_vars
    /\ [][(drv.pc = "idle" /\ drv'.pc = "running") => session_memory' = drv.session]_vars
    /\ [](/\ Len(drv.session.conversation_history) = Len(drv.session.previous_questions)
          /\ Len(drv.session.conversation_history) =
                 Cardinality({ i \in 1..Len(drv.done) : drv.done[i].source = "graph" }))

\* two runs on the same session memory have returned, the second one degraded
C28_Witness ==
    /\ Len(drv.session.conversation_history) = 2
    /\ Len(drv.session.previous_questions) = 2
    /\ drv.session.conversation_history[2].agents_used = <<>>
    /\ drv.session.conversation_history[1].agents_used # <<>>

-----------------------------------------------------------------------------
(* Claims about the timestamps of the cache *)

\* C29: Every stored cache entry satisfies expires = timestamp + ttl exactly,
\* timestamp being the time of insertion recorded in the entry, whatever the
\* clock does between the two readings a put takes.
C29_ExactExpiry ==
    \A i \in 1..Len(cache) : cache[i].expires = cache[i].timestamp + ttl

\* the step is a get that hit
GetHit ==
    /\ last'.op = "get"
    /\ stats'.hits = stats.hits + 1

\* C30: Eviction is by oldest insertion, not by recency of access. A get that
\* hits leaves every entry, its timestamp and its expires included, and the
\* order of the entries as they were; and a put that finds the cache at
\* capacity removes an entry of smallest timestamp, whatever gets came before.
C30_ReadsLeaveEntries ==
    /\ [][GetHit => cache' = cache]_vars
    /\ [][(last'.op = "put" /\ cache' # cache /\ Len(cache) >= max_size) =>
            \E i \in 1..Len(cache) :
                /\ \A j \in 1..Len(cache) : cache[i].timestamp <= cache[j].timestamp
                /\ \A j \in 1..(i - 1) : cache[i].timestamp < cache[j].timestamp
                /\ Keys(cache') = (Keys(cache) \ {cache[i].key}) \cup {get_hash(last'.query)}]_vars

\* a get has just hit the older of the two entries of a cache at capacity, and
\* that entry is still the one the next put removes
C30_Witness ==
    /\ last.op = "get"
    /\ last.ret # None
    /\ stats.hits = 1
    /\ max_size = 2
    /\ Len(cache) = 2
    /\ cache[1].key = get_hash(last.query)
    /\ cache[1].timestamp < cache[2].timestamp
    /\ OldestKey(cache) = get_hash(last.query)

-----------------------------------------------------------------------------
(* Claims about the edit distance *)

Strings == StringsUpTo(MaxStrLen)

\* the strings one insertion, deletion or substitution of a character away from s
Edits(s) ==
    { SubSeq(s, 1, i - 1) \o SubSeq(s, i + 1, Len(s)) : i \in 1..Len(s) }
        \cup { [s EXCEPT ![i] = c] : i \in 1..Len(s), c \in Alphabet }
        \cup (IF Len(s) < MaxStrLen
              THEN { SubSeq(s, 1, i) \o <<c>> \o SubSeq(s, i + 1, Len(s)) :
                         i \in 0..Len(s), c \in Alphabet }
              ELSE {})

\* Within(k)[j + 1][s] is the set of strings at most j edits away from s, for j <= k
RECURSIVE Within(_)
Within(k) ==
    IF k = 0
    THEN << [s \in Strings |-> {s}] >>
    ELSE LET before == Within(k - 1)
             ball == before[k]
         IN  Append(before, [s \in Strings |-> ball[s] \cup UNION { Edits(t) : t \in ball[s] }])

Balls == Within(MaxStrLen)

\* the minimum number of edits that turn s into t
MinEdits(s, t) == (CHOOSE j \in 1..(MaxStrLen + 1) :
                      /\ t \in Balls[j][s]
                      /\ j > 1 => t \notin Balls[j - 1][s]) - 1

\* C31: levenshtein_distance(s1, s2) is the minimum number of insertions,
\* deletions and substitutions of one character that turn s1 into s2, and
\* similarity(q1, q2) is 1 - that minimum / max(len(s1), len(s2)) taken on the
\* lower-cased, trimmed strings s1 and s2, and 1 when both of them are empty.
C31_EditDistance ==
    simOut.done =>
        LET s1 == strip(lower(q1in))
            s2 == strip(lower(q2in))
        IN  /\ simOut.distance = MinEdits(q1in, q2in)
            /\ IF Len(s1) = 0 /\ Len(s2) = 0
               THEN simOut.ab = One
               ELSE FloatEq(simOut.ab,
                            OneMinus(Divide(MinEdits(s1, s2), Max(Len(s1), Len(s2)))))

\* a shorter first string that takes an insertion and a substitution to become
\* the second
C31_Witness ==
    /\ simOut.done
    /\ q1in = <<"a", "b">>
    /\ q2in = <<"b", "A", "a">>
    /\ simOut.distance = 3
    /\ MinEdits(strip(lower(q1in)), strip(lower(q2in))) = 2
    /\ simOut.ab = Float(1, 3)

-----------------------------------------------------------------------------
(* Claims about the failures of the backend inside the parser *)

\* invoke_with_retry has called the backend, and every call so far has failed
AllGenerationsFailed(d) ==
    /\ d.entry = "generate"
    /\ ~d.missing
    /\ d.trace # <<>>
    /\ \A i \in 1..Len(d.trace) : d.trace[i] = <<"generation", "failed">>

\* C32: When every generation call fails, invoke_with_retry with max_retries = n
\* makes exactly n generation calls, sleeps 0.5 s x k after the k-th failed
\* attempt for each k < n and not after the last, issues no corrective call and
\* makes no decode attempt, and raises the failure of the last call.
C32_AllCallsFail ==
    AllGenerationsFailed(dec) =>
        /\ dec.corrections = 0
        /\ dec.decodes = 0
        /\ dec.phase \in {"generating", "raised"}
        /\ dec.phase = "generating" =>
               /\ dec.generations = Len(dec.trace) + 1
               /\ dec.generations <= dec.max_retries
               /\ dec.sleeps = [k \in 1..Len(dec.trace) |-> k]
        /\ dec.phase = "raised" =>
               /\ dec.generations = dec.max_retries
               /\ Len(dec.trace) = dec.max_retries
               /\ dec.sleeps = [k \in 1..(dec.max_retries - 1) |-> k]
               /\ dec.raised = "BackendError"

\* three generation calls have failed and the third failure has been raised
C32_Witness ==
    /\ AllGenerationsFailed(dec)
    /\ dec.phase = "raised"
    /\ dec.max_retries = 3
    /\ dec.generations = 3
    /\ dec.sleeps = <<1, 2>>

\* the step is the failure of a corrective call made by parse_with_retry, called directly
CorrectionFailedInDecode ==
    /\ dec.entry = "decode"
    /\ dec.phase = "correcting"
    /\ dec'.trace = Append(dec.trace, <<"correction", "failed">>)

\* C33: When a corrective call fails inside parse_with_retry, the method does
\* not raise that failure: the failure uses up one attempt, the next attempt
\* decodes the unchanged failing text again (raising ValueError only if that was
\* the last attempt of the budget), and the decode attempts of the call never
\* exceed max_retries.
C33_CorrectionFailure ==
    /\ [][CorrectionFailedInDecode =>
            /\ dec'.llm_output = dec.llm_output
            /\ dec'.pattempt = dec.pattempt + 1
            /\ dec'.decodes = dec.decodes + 1
            /\ dec'.raised \in {"nothing", "ValueError"}
            /\ dec'.phase \in {"correcting", "raised"}
            /\ dec'.phase = "raised" => dec'.decodes = dec.max_retries]_vars
    /\ [](dec.entry = "decode" => dec.decodes <= dec.max_retries)

\* a corrective call has failed, the text was decoded again and a second
\* corrective call is under way
C33_Witness ==
    /\ dec.entry = "decode"
    /\ dec.phase = "correcting"
    /\ dec.trace = << <<"raw", "invalid">>, <<"correction", "failed">> >>
    /\ dec.decodes = 2
    /\ dec.max_retries = 3

\* C34: For max_retries >= 1, every call of parse_with_retry ends in one of two
\* ways: it returns a record valid for the schema, or it raises ValueError once
\* the attempts are used up; it never returns None and never raises another
\* error earlier, whatever the text is, text that is JSON but no object included.
C34_TwoOutcomes ==
    (dec.entry = "decode" /\ dec.max_retries >= 1 /\ Finished(dec)) =>
        \/ /\ dec.phase = "returned"
           /\ dec.result # <<>>
           /\ dec.result[1] \in ValidRecords(dec.schema)
        \/ /\ dec.phase = "raised"
           /\ dec.raised = "ValueError"
           /\ dec.decodes = dec.max_retries

-----------------------------------------------------------------------------
(* Claims about the near-duplicate path of the driver *)

\* the step handles a request that missed the cache and for which
\* find_duplicate returned a result
NearDuplicateStep ==
    /\ drv.pc = "idle"
    /\ Len(drv'.done) = Len(drv.done) + 1
    /\ drv'.done[Len(drv'.done)].source = "deduplicator"

\* C35: Near-duplicate path of the driver. When a request misses the cache but
\* find_duplicate returns a result, the driver puts that result in the cache
\* under the new request, does not run the graph and does not register the
\* request; the same request repeated within the TTL is then a cache hit with
\* that result, for which neither the deduplicator nor the graph is consulted.
C35_NearDuplicate ==
    /\ [][NearDuplicateStep =>
            LET entry == drv'.done[Len(drv'.done)]
                k == get_hash(entry.query)
            IN  /\ drv.queue # <<>> /\ entry.query = Head(drv.queue)
                /\ k \notin Keys(cache) \/ now > Lookup(cache, k).expires
                /\ \E i \in 1..Len(processed_queries) :
                      /\ entry.result = <<processed_queries[i].result>>
                      /\ FloatGe(similarity(entry.query, processed_queries[i].key), threshold)
                /\ k \in Keys(cache')
                /\ Lookup(cache', k).query = entry.query
                /\ <<Lookup(cache', k).result>> = entry.result
                /\ processed_queries' = processed_queries
                /\ registered' = registered
                /\ node = NoRun /\ node' = NoRun
                /\ drv'.pc = "idle"
                /\ \A j \in 1..Len(drv'.ops) : drv'.ops[j][1] \notin {"invoke", "register"}]_vars
    /\ [](\A i \in 1..(Len(drv.done) - 1) :
            ( /\ drv.done[i].source = "deduplicator"
              /\ drv.done[i + 1].query = drv.done[i].query
              /\ drv.done[i + 1].at <= drv.done[i].at + ttl )
                => /\ drv.done[i + 1].source = "cache"
                   /\ drv.done[i + 1].result = drv.done[i].result
                   /\ (i + 1 = Len(drv.done) /\ drv.pc = "idle") =>
                          drv.ops = << <<"get", "hit">> >>)

\* a run, then a near-duplicate served by the deduplicator, then the same
\* request served by the cache
C35_Witness ==
    /\ Len(drv.done) = 3
    /\ drv.done[1].source = "graph"
    /\ drv.done[2].source = "deduplicator"
    /\ drv.done[3].source = "cache"
    /\ drv.done[3].query = drv.done[2].query
    /\ drv.done[2].query # drv.done[1].query
    /\ drv.done[3].result = drv.done[1].result
    /\ Len(processed_queries) = 1

-----------------------------------------------------------------------------
(* Claims about the records of the deduplicator *)

\* the step is a register(query, result) call
RegisterOf(query, result) == registered' = Append(registered, <<query, result>>)

\* C36: register with a text identical to a registered one overwrites the
\* result of that record in place, the record keeping its position in the scan
\* order and no record being added; register with any other text, a
\* near-duplicate or a text differing only in case or surrounding whitespace
\* included, adds a record at the end of the scan order; the number of records
\* is the number of distinct registered texts.
C36_RegisterInPlace ==
    /\ [][\A query \in Queries, result \in Results :
            RegisterOf(query, result) =>
                IF \E i \in 1..Len(processed_queries) : processed_queries[i].key = query
                THEN /\ Len(processed_queries') = Len(processed_queries)
                     /\ \A i \in 1..Len(processed_queries) :
                           /\ processed_queries'[i].key = processed_queries[i].key
                           /\ processed_queries'[i].result =
                                  IF processed_queries[i].key = query
                                  THEN result
                                  ELSE processed_queries[i].result
                ELSE processed_queries' =
                         Append(processed_queries, [key |-> query, result |-> result])]_vars
    /\ [](Len(processed_queries) =
              Cardinality({ registered[i][1] : i \in 1..Len(registered) }))

\* a text registered first, then a text differing from it in case and
\* whitespace only, then the first text again with another result
C36_Witness ==
    /\ registered = << <<<<"a", "b">>, "r1">>, <<<<"A", "b", " ">>, "r1">>, <<<<"a", "b">>, "r2">> >>
    /\ Len(processed_queries) = 2
    /\ processed_queries[1] = [key |-> <<"a", "b">>, result |-> "r2"]
    /\ processed_queries[2].key = <<"A", "b", " ">>

-----------------------------------------------------------------------------
(* Claims about main *)

\* the run of the follow-up query is under way, after the run of the query
\* before it has returned
FollowUpRunning ==
    /\ drv.pc = "running"
    /\ drv.done # <<>>
    /\ drv.done[Len(drv.done)].source = "graph"
    /\ node \in {"router", "memory_retriever", "synthesizer"} \cup Specialists

\* C37: In main's sequence of queries run under one session_id, the run of each
\* query starts with the session memory the earlier queries left: while the
\* follow-up query runs, conversation_history holds the turn recorded for the
\* query before it.
C37_SessionCarriedOver ==
    FollowUpRunning =>
        \E i \in 1..Len(session_memory.conversation_history) :
            session_memory.conversation_history[i].query = drv.done[Len(drv.done)].query

-----------------------------------------------------------------------------
(* Claims about puts into a full cache *)

\* C38: A put whose fingerprint is already stored replaces that entry and
\* removes no other entry, also when the cache holds max_size entries: the
\* fingerprints stored and the number of entries are the same after the put.
C38_ReplaceKeepsOthers ==
    [][(last'.op = "put" /\ get_hash(last'.query) \in Keys(cache)) =>
          /\ Keys(cache') = Keys(cache)
          /\ Len(cache') = Len(cache)]_vars

\* the fingerprints a put has removed for capacity
Evicted == Keys(cache) \ Keys(cache')

\* C39: With a clock that never goes back and a fixed ttl, whenever a put evicts
\* an entry for capacity, the evicted entry has the earliest expires of all
\* stored entries: no put evicts an entry that is not expired while an expired
\* entry stays stored.
C39_EvictsEarliestExpiry ==
    [][(last'.op = "put" /\ Len(cache) >= max_size) =>
          \A k \in Evicted :
              /\ \A j \in 1..Len(cache) : Lookup(cache, k).expires <= cache[j].expires
              /\ ~Expired(Lookup(cache, k), now) =>
                     \A j \in 1..Len(cache) : ~Expired(cache[j], now)]_vars

-----------------------------------------------------------------------------
(* Claims about what a caller reads from errors at the end of a run *)

\* C40: at the end of every run in which agent_outputs is empty (no specialist
\* produced an output), errors holds at least one entry, the run where the
\* router returns a classification whose category is none of theory, design,
\* code, planning included.
C40_DegradedRunHasError ==
    (node = END /\ DOMAIN agent_outputs = {}) => errors # <<>>

====
